---------------------------- MODULE Spec2Model ----------------------------
(***************************************************************************)
(* trmg (transmogrifier): the record transformation engine (getValueByPath,*)
(* applyMapping, SpecificOutputRule.Check, processInput) and the shape-    *)
(* preserving producer/consumer pipeline of main (readJSONInput,           *)
(* readYAMLInput, readCSVInput, the formatters).                           *)
(*                                                                         *)
(* Go strings are sequences of one-character strings, so that              *)
(* strings.Split, regexp search and strings.ReplaceAll are computed.       *)
(* A Go value of type any is a record [t, s, m]: t is its dynamic type,    *)
(* s its text when it is a string or a number, m its entries when it is a  *)
(* map.  A map[string]any reference is [ref, m]: ref is "nil" for the nil  *)
(* map, "in" for the map the caller passed, "new" for a map made by make.  *)
(***************************************************************************)
EXTENDS Integers, Sequences, FiniteSets, TLC

VARIABLES
    config,     \* the Config of the run (getConfig)
    record,     \* processInput: the record argument of the current call
    result,     \* processInput: the value the last call returned
    headerCalls,    \* history: what each call of computeHeaderOrder returned, in order
    call,           \* the last call of a function on record: its arguments and what it returned
    input,          \* standard input, as the decoders deliver it
    ppc,            \* the reader goroutine: where it stands
    work,           \* the reader: the items its loop ranges over
    pidx,           \* the reader: index of the item at hand
    ptag,           \* the reader: the InputType it sends
    pending,        \* the reader: the result it is about to send
    objs,           \* the channel objs: the records in it
    objsClosed,     \* close(objs) has run
    inputTypeChan,  \* the channel inputTypeChan: the values in it
    typeClosed,     \* close(inputTypeChan) has run
    cpc,            \* main: where it stands
    inputType,      \* main: the InputType it received
    formatter,      \* main: the formatter made by NewFormatter
    writer,         \* the chunks written to the bufio.Writer, in order
    exited,         \* "run", or how the process ended
    sent,           \* history: every value sent on objs, in order
    handed,         \* history: every record passed to WriteRecord, in order
    methods,        \* history: the formatter methods called, in order
    signals         \* history: every value sent on inputTypeChan, in order

procVars == <<record, result, headerCalls, call>>
pipeVars == <<input, ppc, work, pidx, ptag, pending, objs, objsClosed, inputTypeChan,
              typeClosed, cpc, inputType, formatter, writer, exited, sent, handed,
              methods, signals>>
vars == <<config, procVars, pipeVars>>

-----------------------------------------------------------------------------
(* Go values *)

EmptyMap == <<>>

Nil == [t |-> "nil", s |-> <<>>, m |-> EmptyMap]
Str(s) == [t |-> "string", s |-> s, m |-> EmptyMap]
Num(s) == [t |-> "float64", s |-> s, m |-> EmptyMap]
NaN == [t |-> "NaN", s |-> <<>>, m |-> EmptyMap]
MapV(m) == [t |-> "map", s |-> <<>>, m |-> m]
Bool(b) == [t |-> "bool", s |-> b, m |-> EmptyMap]
Slice == [t |-> "slice", s |-> <<>>, m |-> EmptyMap]

\* m[k] of a Go map: the zero value (nil) when the key is missing.
Index(m, k) == IF k \in DOMAIN m THEN m[k] ELSE Nil

\* m[k] = v
Put(m, k, v) == [x \in (DOMAIN m) \cup {k} |-> IF x = k THEN v ELSE m[x]]

\* maps.Copy(dst, src)
MapsCopy(dst, src) ==
    [x \in (DOMAIN dst) \cup (DOMAIN src) |-> IF x \in DOMAIN src THEN src[x] ELSE dst[x]]

NilRef == [ref |-> "nil", m |-> EmptyMap]
InRef(m) == [ref |-> "in", m |-> m]
NewRef(m) == [ref |-> "new", m |-> m]

\* A *string field: <<>> is the nil pointer, <<s>> points to s.
NilPtr == <<>>
Ptr(s) == <<s>>

-----------------------------------------------------------------------------
(* strings *)

RECURSIVE IndexOf(_, _, _)
\* The first position >= i of character c in s, 0 when there is none.
IndexOf(s, c, i) ==
    IF i > Len(s) THEN 0
    ELSE IF s[i] = c THEN i
    ELSE IndexOf(s, c, i + 1)

RECURSIVE Split(_, _)
\* strings.Split(s, sep) for a one-character separator.
Split(s, sep) ==
    LET i == IndexOf(s, sep, 1)
    IN  IF i = 0 THEN <<s>>
        ELSE <<SubSeq(s, 1, i - 1)>> \o Split(SubSeq(s, i + 1, Len(s)), sep)

HasPrefixAt(s, i, p) ==
    /\ i + Len(p) - 1 <= Len(s)
    /\ \A j \in 1..Len(p) : s[i + j - 1] = p[j]

RECURSIVE ReplaceFrom(_, _, _, _)
ReplaceFrom(s, i, old, new) ==
    IF i > Len(s) THEN <<>>
    ELSE IF HasPrefixAt(s, i, old) THEN new \o ReplaceFrom(s, i + Len(old), old, new)
    ELSE <<s[i]>> \o ReplaceFrom(s, i + 1, old, new)

\* strings.ReplaceAll(s, old, new) for a non-empty old.
ReplaceAll(s, old, new) == ReplaceFrom(s, 1, old, new)

Digit(d) == <<"0", "1", "2", "3", "4", "5", "6", "7", "8", "9">>[d + 1]

RECURSIVE Itoa(_)
\* The decimal text of n >= 0, as fmt.Sprintf("%d", n) prints it.
Itoa(n) == IF n < 10 THEN <<Digit(n)>> ELSE Itoa(n \div 10) \o <<Digit(n % 10)>>

-----------------------------------------------------------------------------
(* regexp: the patterns made of literal characters, ".", "(" and ")" *)

RECURSIVE ParenDepth(_, _, _)
\* The nesting depth after reading p from position i, -1 once a ")" closes nothing.
ParenDepth(p, i, d) ==
    IF d < 0 THEN -1
    ELSE IF i > Len(p) THEN d
    ELSE ParenDepth(p, i + 1, IF p[i] = "(" THEN d + 1 ELSE IF p[i] = ")" THEN d - 1 ELSE d)

\* regexp.Compile(p) returns no error.
Compiles(p) == ParenDepth(p, 1, 0) = 0

IsParen(c) == c \in {"(", ")"}

Atoms(p) == SelectSeq(p, LAMBDA c : ~IsParen(c))

AtomMatches(a, c) == IF a = "." THEN c # "\n" ELSE a = c

MatchAt(p, s, pos) ==
    LET as == Atoms(p)
    IN  /\ pos + Len(as) - 1 <= Len(s)
        /\ \A i \in 1..Len(as) : AtomMatches(as[i], s[pos + i - 1])

\* re.MatchString(s): an unanchored search.
MatchString(p, s) == \E pos \in 1..(Len(s) + 1) : MatchAt(p, s, pos)

-----------------------------------------------------------------------------
(* getValueByPath *)

RECURSIVE Descend_keepLast(_, _)
\* Descend returning the value reached when it is not a map, instead of nil.
Descend_keepLast(current, parts) ==
    IF parts = <<>> THEN current
    ELSE IF current.t = "map"
         THEN Descend_keepLast(Index(current.m, Head(parts)), Tail(parts))
    ELSE current

RECURSIVE Descend(_, _)
\* The loop over the parts of the path, current being the value reached.
Descend(current, parts) ==
    IF parts = <<>> THEN current
    ELSE IF current.t = "map" THEN Descend(Index(current.m, Head(parts)), Tail(parts))
    ELSE Nil

getValueByPath(rec, path) == Descend(MapV(rec.m), Split(path, "."))

-----------------------------------------------------------------------------
(* the rule matcher *)

\* AndCondition.Check with a condition on a field that is not a string holding.
AndConditionCheck_nonString(ac, rec) ==
    LET val == getValueByPath(rec, ac.Field)
    IN  IF val.t # "string" THEN TRUE
        ELSE IF ac.Eq # NilPtr THEN val.s = ac.Eq[1]
        ELSE IF ac.Matches # NilPtr
             THEN Compiles(ac.Matches[1]) /\ MatchString(ac.Matches[1], val.s)
        ELSE FALSE

\* AndCondition.Check going on to matches when eq holds.
AndConditionCheck_both(ac, rec) ==
    LET val == getValueByPath(rec, ac.Field)
    IN  IF val.t # "string" THEN FALSE
        ELSE IF ac.Eq # NilPtr /\ val.s # ac.Eq[1] THEN FALSE
        ELSE IF ac.Matches # NilPtr
             THEN Compiles(ac.Matches[1]) /\ MatchString(ac.Matches[1], val.s)
        ELSE ac.Eq # NilPtr

AndConditionCheck(ac, rec) ==
    LET val == getValueByPath(rec, ac.Field)
    IN  IF val.t # "string" THEN FALSE
        ELSE IF ac.Eq # NilPtr THEN val.s = ac.Eq[1]
        ELSE IF ac.Matches # NilPtr
             THEN Compiles(ac.Matches[1]) /\ MatchString(ac.Matches[1], val.s)
        ELSE FALSE

\* Check returning after eq, as AndCondition.Check does.
Check_eqOnly(r, rec) ==
    LET val == getValueByPath(rec, r.Field)
    IN  /\ val.t = "string"
        /\ (r.Eq # NilPtr => val.s = r.Eq[1])
        /\ ((r.Eq = NilPtr /\ r.Matches # NilPtr) =>
                Compiles(r.Matches[1]) /\ MatchString(r.Matches[1], val.s))
        /\ \A i \in 1..Len(r.And) : AndConditionCheck(r.And[i], rec)

\* Check without the test that the field holds a string.
Check_anyType(r, rec) ==
    LET val == getValueByPath(rec, r.Field)
    IN  /\ (r.Eq # NilPtr => val.t = "string" /\ val.s = r.Eq[1])
        /\ (r.Matches # NilPtr =>
                val.t = "string" /\ Compiles(r.Matches[1]) /\ MatchString(r.Matches[1], val.s))
        /\ \A i \in 1..Len(r.And) : AndConditionCheck(r.And[i], rec)

Check(r, rec) ==
    LET val == getValueByPath(rec, r.Field)
    IN  /\ val.t = "string"
        /\ (r.Eq # NilPtr => val.s = r.Eq[1])
        /\ (r.Matches # NilPtr =>
                Compiles(r.Matches[1]) /\ MatchString(r.Matches[1], val.s))
        /\ \A i \in 1..Len(r.And) : AndConditionCheck(r.And[i], rec)

-----------------------------------------------------------------------------
(* regexp: submatches *)

\* Number of characters of p[1..i-1] that are not parentheses.
AtomsBefore(p, i) == Len(Atoms(SubSeq(p, 1, i - 1)))

\* The positions of the opening parentheses of p, in increasing order.
Opens(p) == SelectSeq([i \in 1..Len(p) |-> IF p[i] = "(" THEN i ELSE 0], LAMBDA i : i # 0)

\* The position of the ")" that closes the "(" at position i of a pattern that compiles.
CloseOf(p, i) ==
    CHOOSE j \in (i + 1)..Len(p) :
        /\ p[j] = ")"
        /\ ParenDepth(SubSeq(p, i, j), 1, 0) = 0
        /\ \A k \in (i + 1)..(j - 1) : ParenDepth(SubSeq(p, i, k), 1, 0) > 0

\* re.FindStringSubmatch(s): <<>> when nothing matches, else the leftmost match
\* followed by the text of each capture group.
FindStringSubmatch(p, s) ==
    IF ~MatchString(p, s) THEN <<>>
    ELSE LET pos == CHOOSE q \in 1..(Len(s) + 1) :
                        MatchAt(p, s, q) /\ \A q2 \in 1..(q - 1) : ~MatchAt(p, s, q2)
             os == Opens(p)
         IN  <<SubSeq(s, pos, pos + Len(Atoms(p)) - 1)>> \o
             [k \in 1..Len(os) |->
                 SubSeq(s, pos + AtomsBefore(p, os[k]),
                           pos + AtomsBefore(p, CloseOf(p, os[k])) - 1)]

-----------------------------------------------------------------------------
(* the mapping evaluator *)

RECURSIVE SeqOfSet(_)
\* The elements of a finite set in some order (the order of a Go range over a map).
SeqOfSet(S) ==
    IF S = {} THEN <<>>
    ELSE LET x == CHOOSE y \in S : TRUE IN <<x>> \o SeqOfSet(S \ {x})

src == <<"s", "r", "c">>
regex == <<"r", "e", "g", "e", "x">>
value == <<"v", "a", "l", "u", "e">>

hasKeys(m, ks) == \A k \in ks : k \in DOMAIN m

strval(om, key) == IF Index(om, key).t = "string" THEN Index(om, key).s ELSE <<>>

RECURSIVE Substitute_once(_, _, _)
\* Substitute replacing in the template alone: what a group brings in is not
\* looked at again for the later placeholders.
Substitute_once(res, matches, i) ==
    IF res = <<>> THEN <<>>
    ELSE IF \E k \in 1..(Len(matches) - 1) : HasPrefixAt(res, 1, <<"$">> \o Itoa(k))
    THEN LET k == CHOOSE j \in 1..(Len(matches) - 1) : HasPrefixAt(res, 1, <<"$">> \o Itoa(j))
         IN  matches[k + 1]
             \o Substitute_once(SubSeq(res, Len(Itoa(k)) + 2, Len(res)), matches, i)
    ELSE <<res[1]>> \o Substitute_once(Tail(res), matches, i)

RECURSIVE Substitute(_, _, _)
\* The loop over matches[1:] of applyMapping, from group i on.
Substitute(res, matches, i) ==
    IF i > Len(matches) - 1 THEN res
    ELSE Substitute(ReplaceAll(res, <<"$">> \o Itoa(i), matches[i + 1]), matches, i + 1)

RECURSIVE applyMapping(_, _, _, _)
RECURSIVE applyNested(_, _, _, _)

\* applyMapping writing a simple path only when the path resolves to a value.
applyMapping_skipAbsent(name, in, out, outSpec) ==
    IF outSpec.t = "string" THEN
        IF getValueByPath(in, outSpec.s) = Nil THEN out
        ELSE Put(out, name, getValueByPath(in, outSpec.s))
    ELSE IF outSpec.t = "map" THEN
        IF hasKeys(outSpec.m, {src, regex, value}) THEN
            LET re == strval(outSpec.m, regex)
                srcVal == getValueByPath(in, strval(outSpec.m, src))
                val == strval(outSpec.m, value)
            IN  IF ~Compiles(re) THEN out
                ELSE IF srcVal.t # "string" THEN out
                ELSE IF Len(FindStringSubmatch(re, srcVal.s)) = 0 THEN out
                ELSE IF val # <<>>
                     THEN Put(out, name, Str(Substitute(val, FindStringSubmatch(re, srcVal.s), 1)))
                ELSE out
        ELSE Put(out, name, MapV(applyNested(SeqOfSet(DOMAIN outSpec.m), in, EmptyMap, outSpec.m)))
    ELSE out

\* applyMapping without the test for an empty template: the key is written
\* whenever the search finds a match.
applyMapping_emptyTemplate(name, in, out, outSpec) ==
    IF outSpec.t = "string" THEN Put(out, name, getValueByPath(in, outSpec.s))
    ELSE IF outSpec.t = "map" THEN
        IF hasKeys(outSpec.m, {src, regex, value}) THEN
            LET re == strval(outSpec.m, regex)
                srcVal == getValueByPath(in, strval(outSpec.m, src))
                val == strval(outSpec.m, value)
            IN  IF ~Compiles(re) THEN out
                ELSE IF srcVal.t # "string" THEN out
                ELSE IF Len(FindStringSubmatch(re, srcVal.s)) = 0 THEN out
                ELSE Put(out, name, Str(Substitute(val, FindStringSubmatch(re, srcVal.s), 1)))
        ELSE Put(out, name, MapV(applyNested(SeqOfSet(DOMAIN outSpec.m), in, EmptyMap, outSpec.m)))
    ELSE out

\* The value of out after applyMapping(name, in, out, outSpec).
applyMapping(name, in, out, outSpec) ==
    IF outSpec.t = "string" THEN Put(out, name, getValueByPath(in, outSpec.s))
    ELSE IF outSpec.t = "map" THEN
        IF hasKeys(outSpec.m, {src, regex, value}) THEN
            LET re == strval(outSpec.m, regex)
                srcVal == getValueByPath(in, strval(outSpec.m, src))
                val == strval(outSpec.m, value)
            IN  IF ~Compiles(re) THEN out
                ELSE IF srcVal.t # "string" THEN out
                ELSE IF Len(FindStringSubmatch(re, srcVal.s)) = 0 THEN out
                ELSE IF val # <<>>
                     THEN Put(out, name, Str(Substitute(val, FindStringSubmatch(re, srcVal.s), 1)))
                ELSE out
        ELSE Put(out, name, MapV(applyNested(SeqOfSet(DOMAIN outSpec.m), in, EmptyMap, outSpec.m)))
    ELSE out

\* The loop "for k := range v { applyMapping(k, in, newout, v[k]) }".
applyNested(ks, in, newout, v) ==
    IF ks = <<>> THEN newout
    ELSE applyNested(Tail(ks), in, applyMapping(Head(ks), in, newout, v[Head(ks)]), v)

RECURSIVE convertFieldMappings(_)
\* The one-key maps of a mapping list as a list of [Key, Output].
convertFieldMappings(maps) ==
    IF maps = <<>> THEN <<>>
    ELSE LET m == Head(maps)
             ks == SeqOfSet(DOMAIN m)
         IN  [i \in 1..Len(ks) |-> [Key |-> ks[i], Output |-> m[ks[i]]]]
             \o convertFieldMappings(Tail(maps))

RECURSIVE applyFieldMappingsFrom(_, _, _)
applyFieldMappingsFrom(rec, mappings, output) ==
    IF mappings = <<>> THEN output
    ELSE applyFieldMappingsFrom(rec, Tail(mappings),
             applyMapping(Head(mappings).Key, rec, output, Head(mappings).Output))

applyFieldMappings(rec, mappings) == applyFieldMappingsFrom(rec, mappings, EmptyMap)

-----------------------------------------------------------------------------
(* the record processor *)

\* FirstMatch with the break of the rule loop missing: the last matching rule
\* is the one whose mappings stay.
FirstMatch_noBreak(rules, rec) ==
    IF \E i \in 1..Len(rules) : Check(rules[i], rec)
    THEN CHOOSE i \in 1..Len(rules) :
            Check(rules[i], rec) /\ \A j \in (i + 1)..Len(rules) : ~Check(rules[j], rec)
    ELSE 0

\* The index of the rule at which the loop of processInput breaks, 0 when the
\* loop ends without a match.
FirstMatch(rules, rec) ==
    IF \E i \in 1..Len(rules) : Check(rules[i], rec)
    THEN CHOOSE i \in 1..Len(rules) :
            Check(rules[i], rec) /\ \A j \in 1..(i - 1) : ~Check(rules[j], rec)
    ELSE 0

\* MappedOutput with the copy the other way round: the common mappings stay
\* where the rule writes the same key.
MappedOutput_commonWins(rec, cfg) ==
    LET output == applyFieldMappings(rec, convertFieldMappings(cfg.CommonOutput))
        i == FirstMatch(cfg.SpecificOutputs, rec)
    IN  IF i = 0 THEN output
        ELSE MapsCopy(applyFieldMappings(rec,
                          convertFieldMappings(cfg.SpecificOutputs[i].Output)),
                      output)

\* The map named output when the rule loop of processInput has ended.
MappedOutput(rec, cfg) ==
    LET output == applyFieldMappings(rec, convertFieldMappings(cfg.CommonOutput))
        i == FirstMatch(cfg.SpecificOutputs, rec)
    IN  IF i = 0 THEN output
        ELSE MapsCopy(output,
                 applyFieldMappings(rec, convertFieldMappings(cfg.SpecificOutputs[i].Output)))

\* processInput dropping every record under drop-no-match, matched or not.
processInput_dropAll(rec, cfg) ==
    LET output == MappedOutput(rec, cfg)
    IN  IF cfg.MatchRule = "drop-no-match" THEN NilRef
        ELSE IF Cardinality(DOMAIN output) = 0 THEN rec
        ELSE NewRef(output)

\* processInput without the "nothing was mapped" test.
processInput_noPassThrough(rec, cfg) ==
    LET matchedSpecific == FirstMatch(cfg.SpecificOutputs, rec) # 0
        output == MappedOutput(rec, cfg)
    IN  IF cfg.MatchRule = "drop-no-match" /\ ~matchedSpecific THEN NilRef
        ELSE NewRef(output)

\* processInput with its two tests in the other order.
processInput_passFirst(rec, cfg) ==
    LET matchedSpecific == FirstMatch(cfg.SpecificOutputs, rec) # 0
        output == MappedOutput(rec, cfg)
    IN  IF Cardinality(DOMAIN output) = 0 THEN rec
        ELSE IF cfg.MatchRule = "drop-no-match" /\ ~matchedSpecific THEN NilRef
        ELSE NewRef(output)

processInput(rec, cfg) ==
    LET matchedSpecific == FirstMatch(cfg.SpecificOutputs, rec) # 0
        output == MappedOutput(rec, cfg)
    IN  IF cfg.MatchRule = "drop-no-match" /\ ~matchedSpecific THEN NilRef
        ELSE IF Cardinality(DOMAIN output) = 0 THEN rec
        ELSE NewRef(output)

-----------------------------------------------------------------------------
(* the records and configurations the checks range over *)

foo == <<"f", "o", "o">>
val == <<"v", "a", "l">>
baz == <<"b", "a", "z">>
extra == <<"e", "x", "t", "r", "a">>
yes == <<"y", "e", "s">>
no == <<"n", "o">>
valFoo == val \o <<".">> \o foo

\* At most MaxRules rules in specificOutputs.
MaxRules == 2

FieldKeys == {foo, val}
FieldValues == {Str(yes), Str(no), Num(<<"1">>), MapV(foo :> Str(yes))}

\* Every map over FieldKeys, as the record a decoder hands to processInput,
\* and the nil map (a JSON null element of an array decodes to it).
Records ==
    {NilRef} \cup
    {InRef(m) : m \in UNION {[ks -> FieldValues] : ks \in SUBSET FieldKeys}}

RegexSpec(s, r, v) == MapV((src :> Str(s)) @@ (regex :> Str(r)) @@ (value :> Str(v)))

CommonOutputs ==
    { <<>>,
      <<(baz :> Str(foo))>>,
      <<(baz :> Str(valFoo)), (val :> Str(val))>>,
      <<(baz :> RegexSpec(foo, <<"(", "y", ")", "e">>, <<"n", "=", "$", "1">>))>>,
      <<(baz :> MapV((foo :> Str(foo)) @@ (val :> Str(valFoo))))>> }

Rule(f, eq, matches, and, output) ==
    [Field |-> f, Eq |-> eq, Matches |-> matches, And |-> and, Output |-> output]

Cond(f, eq, matches) == [Field |-> f, Eq |-> eq, Matches |-> matches]

Rules ==
    { Rule(foo, Ptr(yes), NilPtr, <<>>, <<(extra :> Str(val))>>),
      Rule(foo, NilPtr, Ptr(<<"y", ".", "s">>), <<>>, <<(baz :> Str(val)), (val :> Str(foo))>>),
      Rule(foo, NilPtr, NilPtr, <<>>, <<(extra :> Str(foo))>>),
      Rule(foo, Ptr(yes), Ptr(<<"(">>), <<>>, <<(extra :> Str(val))>>),
      Rule(foo, Ptr(no), NilPtr, <<Cond(valFoo, Ptr(yes), NilPtr)>>, <<(val :> Str(valFoo))>>),
      Rule(valFoo, NilPtr, Ptr(<<"e", "s">>), <<Cond(foo, NilPtr, NilPtr)>>, <<(extra :> Str(foo))>>),
      Rule(foo, NilPtr, NilPtr, <<Cond(foo, NilPtr, Ptr(<<"o">>))>>, <<>>),
      Rule(val, NilPtr, NilPtr, <<>>,
           <<(extra :> RegexSpec(val, <<"(", ")">>, <<>>))>>) }

SeqsUpTo(S, n) == UNION {[1..k -> S] : k \in 0..n}

MatchRules == {"all", "drop-no-match"}

Configs ==
    { [MatchRule |-> mr, CommonOutput |-> co, SpecificOutputs |-> so,
       InputFormat |-> "yaml", OutputFormat |-> "yaml"] :
        mr \in MatchRules, co \in CommonOutputs, so \in SeqsUpTo(Rules, MaxRules) }

-----------------------------------------------------------------------------
(* processInput called on one record after another, under one configuration *)

NoResult == [ref |-> "none", m |-> EmptyMap]

\* No function has been called yet.
NoCall == [fn |-> "none"]

SingletonInput == 0
ArrayInput == 1
StreamInput == 2

\* No formatter has been made yet.
NoFormatter == [format |-> "none", isFirst |-> TRUE, isSingletonInput |-> FALSE]

\* The pipeline when main has made the channels and started the reader.
PipeStart ==
    /\ ppc = "start"
    /\ work = <<>>
    /\ pidx = 1
    /\ ptag = SingletonInput
    /\ pending = NilRef
    /\ objs = <<>>
    /\ objsClosed = FALSE
    /\ inputTypeChan = <<>>
    /\ typeClosed = FALSE
    /\ cpc = "recvType"
    /\ inputType = SingletonInput
    /\ formatter = NoFormatter
    /\ writer = <<>>
    /\ exited = "run"
    /\ sent = <<>>
    /\ handed = <<>>
    /\ methods = <<>>
    /\ signals = <<>>

InitProc ==
    /\ config \in Configs
    /\ record \in Records
    /\ result = NoResult
    /\ headerCalls = <<>>
    /\ call = NoCall
    /\ input = [kind |-> "empty", items |-> <<>>]
    /\ PipeStart

\* ProcessInputCall with the mappings written into the input record as well.
ProcessInputCall_writesInput ==
    /\ result = NoResult
    /\ result' = processInput(record, config)
    /\ record' = IF record.ref = "in" THEN InRef(MapsCopy(record.m, MappedOutput(record, config)))
                 ELSE record
    /\ UNCHANGED <<config, headerCalls, call, pipeVars>>

\* result := processInput(record, config)
ProcessInputCall ==
    /\ result = NoResult
    /\ result' = processInput(record, config)
    /\ UNCHANGED <<config, record, headerCalls, call, pipeVars>>

\* The caller takes the next record.
NextRecord ==
    /\ result # NoResult
    /\ record' \in Records
    /\ result' = NoResult
    /\ UNCHANGED <<config, headerCalls, call, pipeVars>>

NextProc == ProcessInputCall \/ NextRecord

SpecProc == InitProc /\ [][NextProc]_vars

-----------------------------------------------------------------------------
(* computeHeaderOrder, called under one configuration between processInput calls *)

\* The orders in which a Go range over a map with the keys S can deliver
\* them: the iteration order of a map is unspecified.
Perms(S) == {p \in [1..Cardinality(S) -> S] : \A i, j \in 1..Cardinality(S) : p[i] = p[j] => i = j}

contains(slice, k) == \E i \in 1..Len(slice) : slice[i] = k

RECURSIVE AddKeys_noContains(_, _)
\* AddKeys with the contains test left out.
AddKeys_noContains(headers, ks) ==
    IF ks = <<>> THEN headers ELSE AddKeys_noContains(Append(headers, Head(ks)), Tail(ks))

RECURSIVE AddKeys(_, _)
\* for k := range m { if !contains(headers, k) { headers = append(headers, k) } },
\* the range delivering the keys in the order ks.
AddKeys(headers, ks) ==
    IF ks = <<>> THEN headers
    ELSE AddKeys(IF contains(headers, Head(ks)) THEN headers ELSE Append(headers, Head(ks)),
                 Tail(ks))

RECURSIVE RuleOutputs(_)
\* The entries of the Output lists of the rules, rule after rule.
RuleOutputs(rules) ==
    IF rules = <<>> THEN <<>> ELSE Head(rules).Output \o RuleOutputs(Tail(rules))

RECURSIVE HeaderOrders(_, _)
\* The values headers can have after the loops over the entries ms.
HeaderOrders(ms, headers) ==
    IF ms = <<>> THEN {headers}
    ELSE UNION {HeaderOrders(Tail(ms), AddKeys(headers, ks)) : ks \in Perms(DOMAIN Head(ms))}

\* computeHeaderOrder without the loop over the specific outputs.
computeHeaderOrder_commonOnly(cfg) ==
    HeaderOrders(cfg.CommonOutput, <<>>)

\* The values computeHeaderOrder(config) can return.
computeHeaderOrder(cfg) ==
    HeaderOrders(cfg.CommonOutput \o RuleOutputs(cfg.SpecificOutputs), <<>>)

\* At most MaxHeaderCalls calls of computeHeaderOrder are followed.
MaxHeaderCalls == 2

HdrCommonOutputs ==
    { <<>>,
      <<(baz :> Str(foo))>>,
      <<(baz :> Str(foo)), (val :> Str(val)), (baz :> Str(val))>>,
      <<(val :> Str(val)) @@ (baz :> Str(foo))>> }

HdrRules ==
    { Rule(foo, Ptr(yes), NilPtr, <<>>, <<(extra :> Str(val))>>),
      Rule(foo, NilPtr, NilPtr, <<>>, <<(val :> Str(foo)), (extra :> Str(foo))>>),
      Rule(foo, Ptr(no), NilPtr, <<>>, <<(extra :> Str(foo)) @@ (foo :> Str(val))>>) }

HdrConfigs ==
    { [MatchRule |-> "all", CommonOutput |-> co, SpecificOutputs |-> so,
       InputFormat |-> "yaml", OutputFormat |-> "csv"] :
        co \in HdrCommonOutputs, so \in SeqsUpTo(HdrRules, MaxRules) }

HdrRecords == {InRef(foo :> Str(yes)), InRef((foo :> Str(no)) @@ (val :> Str(yes)))}

InitHdr ==
    /\ config \in HdrConfigs
    /\ record \in HdrRecords
    /\ result = NoResult
    /\ headerCalls = <<>>
    /\ call = NoCall
    /\ input = [kind |-> "empty", items |-> <<>>]
    /\ PipeStart

\* headerOrder: computeHeaderOrder(config), as in NewCSVFormatter.
ComputeHeaderOrderCall ==
    /\ Len(headerCalls) < MaxHeaderCalls
    /\ \E h \in computeHeaderOrder(config) : headerCalls' = Append(headerCalls, h)
    /\ UNCHANGED <<config, record, result, call, pipeVars>>

\* The next record is one of HdrRecords.
NextHdrRecord ==
    /\ result # NoResult
    /\ record' \in HdrRecords
    /\ result' = NoResult
    /\ UNCHANGED <<config, headerCalls, call, pipeVars>>

NextHdr == ComputeHeaderOrderCall \/ ProcessInputCall \/ NextHdrRecord

SpecHdr == InitHdr /\ [][NextHdr]_vars

-----------------------------------------------------------------------------
(* getValueByPath, applyMapping and the Check methods called on one record *)

dot == "."
empty == <<>>

RECURSIVE Join(_, _)
\* strings.Join(segs, sep)
Join(segs, sep) ==
    IF segs = <<>> THEN <<>>
    ELSE IF Len(segs) = 1 THEN segs[1]
    ELSE segs[1] \o <<sep>> \o Join(Tail(segs), sep)

hello123 == <<"h", "e", "l", "l", "o", "-", "1", "2", "3">>

\* A path has at most MaxSegs segments.
MaxSegs == 3

\* The segments of the paths: two keys and the empty string.
SegNames == {foo, val, empty}

\* The dot-separated paths: "" (one empty segment), "foo", "foo.val", "foo..val", ...
PathSegs == SeqsUpTo(SegNames, MaxSegs) \ {<<>>}

\* Records with nested mappings, null values, non-mapping values on the way
\* (a number, a boolean, a sequence) and the empty string as a key; the nil map.
CallRecords ==
    { NilRef,
      InRef(EmptyMap),
      InRef(foo :> Str(yes)),
      InRef(foo :> Nil),
      InRef(foo :> MapV(val :> Str(no))),
      InRef(foo :> MapV(val :> MapV(foo :> Str(yes)))),
      InRef(empty :> Str(yes)),
      InRef((foo :> MapV(empty :> Str(no))) @@ (val :> Num(<<"1">>))),
      InRef(empty :> MapV(empty :> Str(yes))),
      InRef((foo :> Str(yes)) @@ (val :> MapV(foo :> MapV(val :> Str(no))))),
      InRef((foo :> Str(hello123)) @@ (val :> Str(yes))),
      InRef(foo :> Str(<<"$", "2", "x">>)),
      InRef((foo :> Str(yes)) @@ (val :> Str(no))),
      InRef((foo :> Num(<<"1">>)) @@ (val :> Str(yes))),
      InRef((foo :> Bool(<<"t", "r", "u", "e">>)) @@ (val :> Str(yes))),
      InRef((foo :> Slice) @@ (val :> Str(no))) }

InitCalls ==
    /\ config \in {[MatchRule |-> "all", CommonOutput |-> <<>>, SpecificOutputs |-> <<>>,
                    InputFormat |-> "yaml", OutputFormat |-> "yaml"]}
    /\ record \in CallRecords
    /\ result = NoResult
    /\ headerCalls = <<>>
    /\ call = NoCall
    /\ input = [kind |-> "empty", items |-> <<>>]
    /\ PipeStart

\* getValueByPath(record, path), the path being segs joined by dots.
GetValueByPathCall ==
    /\ call = NoCall
    /\ \E segs \in PathSegs :
          call' = [fn |-> "getValueByPath", rec |-> record, segs |-> segs,
                   path |-> Join(segs, dot),
                   ret |-> getValueByPath(record, Join(segs, dot))]
    /\ UNCHANGED <<config, record, result, headerCalls, pipeVars>>

\* Patterns: two groups, no group, one that does not compile, the empty
\* pattern, hello-(...) and a group that can capture the text "$2".
CallPatterns ==
    { <<"(", "y", ")", "(", "e", ")", "s">>, <<"y", ".", "s">>, <<"(">>, empty,
      <<"h", "e", "l", "l", "o", "-", "(", ".", ".", ".", ")">>,
      <<"(", ".", ".", ")", "(", ".", ")">> }

\* Templates: "", "x", "$1", "$2$1", "$1$1", "number=$1".
CallTemplates ==
    { empty, <<"x">>, <<"$", "1">>, <<"$", "2", "$", "1">>, <<"$", "1", "$", "1">>,
      <<"n", "u", "m", "b", "e", "r", "=", "$", "1">> }

\* The output specifications: simple paths, regex-extract specifications (one
\* of them with a template that is not a string) and nested ones.
CallSpecs ==
    {Str(foo), Str(val), Str(valFoo), Str(empty)}
    \cup {RegexSpec(s, r, v) : s \in {foo, val}, r \in CallPatterns, v \in CallTemplates}
    \cup { MapV((src :> Str(foo)) @@ (regex :> Str(<<"y">>)) @@ (value :> Num(<<"1">>))),
           MapV((src :> Str(foo)) @@ (regex :> Str(<<"y">>))),
           MapV((foo :> Str(foo)) @@ (val :> RegexSpec(foo, <<"(", "y", ")">>, <<"$", "1">>))) }

\* The output record before the call: empty, holding the key already, holding
\* another key.
CallOuts == {EmptyMap, (baz :> Str(no)), (extra :> Str(no))}

\* applyMapping(name, record, out, outSpec): ret is out after the call.
ApplyMappingCall ==
    /\ call = NoCall
    /\ \E out \in CallOuts, outSpec \in CallSpecs :
          call' = [fn |-> "applyMapping", rec |-> record, name |-> baz, out |-> out,
                   outSpec |-> outSpec, ret |-> applyMapping(baz, record, out, outSpec)]
    /\ UNCHANGED <<config, record, result, headerCalls, pipeVars>>

\* The conditions: each of eq and matches absent or present, eq equal or not
\* to the value of the records, matches a pattern that is found, one that is
\* not and one that does not compile.
CallConds ==
    { Cond(f, eq, m) :
        f \in {foo, val},
        eq \in {NilPtr, Ptr(yes), Ptr(no)},
        m \in {NilPtr, Ptr(<<"y", ".", "s">>), Ptr(<<"o">>), Ptr(<<"(">>)} }

\* The and-lists: empty, one condition, two conditions.
CallAnds ==
    { <<>>,
      <<Cond(val, Ptr(yes), NilPtr)>>,
      <<Cond(val, NilPtr, NilPtr)>>,
      <<Cond(foo, Ptr(yes), Ptr(<<"o">>))>>,
      <<Cond(foo, NilPtr, Ptr(<<"e">>)), Cond(val, Ptr(no), NilPtr)>> }

\* The rules: every condition at the top level with every and-list.
CallRules == {Rule(c.Field, c.Eq, c.Matches, and, <<>>) : c \in CallConds, and \in CallAnds}

\* ac.Check(record)
AndConditionCheckCall ==
    /\ call = NoCall
    /\ \E ac \in CallConds :
          call' = [fn |-> "AndCondition.Check", rec |-> record, ac |-> ac,
                   ret |-> AndConditionCheck(ac, record)]
    /\ UNCHANGED <<config, record, result, headerCalls, pipeVars>>

\* r.Check(record)
CheckCall ==
    /\ call = NoCall
    /\ \E r \in CallRules :
          call' = [fn |-> "SpecificOutputRule.Check", rec |-> record, r |-> r,
                   ret |-> Check(r, record)]
    /\ UNCHANGED <<config, record, result, headerCalls, pipeVars>>

\* The configurations processInput is called with: the common mappings with
\* and without a simple path, no rule or one rule.
CallConfigs ==
    { [MatchRule |-> mr, CommonOutput |-> co, SpecificOutputs |-> so,
       InputFormat |-> "yaml", OutputFormat |-> "yaml"] :
        mr \in MatchRules,
        co \in CommonOutputs \cup
                 { <<(baz :> RegexSpec(foo, <<"(", "y", ")", "e">>, <<"n", "=", "$", "1">>)),
                     (extra :> Str(valFoo))>> },
        so \in {<<>>} \cup {<<r>> : r \in Rules} }

\* processInput(record, cfg)
ProcessInputOf ==
    /\ call = NoCall
    /\ \E cfg \in CallConfigs :
          call' = [fn |-> "processInput", rec |-> record, cfg |-> cfg,
                   ret |-> processInput(record, cfg)]
    /\ UNCHANGED <<config, record, result, headerCalls, pipeVars>>

\* The caller has used what the call returned and goes on with another record.
CallReturns ==
    /\ call # NoCall
    /\ call' = NoCall
    /\ record' \in CallRecords
    /\ UNCHANGED <<config, result, headerCalls, pipeVars>>

NextCalls ==
    \/ GetValueByPathCall
    \/ ApplyMappingCall
    \/ AndConditionCheckCall
    \/ CheckCall
    \/ ProcessInputOf
    \/ CallReturns

SpecCalls == InitCalls /\ [][NextCalls]_vars

-----------------------------------------------------------------------------
(* standard input, as the decoders deliver it *)

\* An item of the input: a JSON array element, a JSONL line, a YAML document
\* or sequence element, a CSV row.  rec is its record when it is a mapping,
\* sub its elements (a YAML sequence) or its cells (a CSV row).
Item(kind, rec, sub) == [kind |-> kind, rec |-> rec, sub |-> sub]

MapItem(rec) == Item("map", rec, <<>>)
Other(kind) == Item(kind, NilRef, <<>>)

\* At most MaxItems items in an input of the short kind.
MaxItems == 2

\* Capacity of the channel objs.
ObjsCap == 16

recYes == InRef(foo :> Str(yes))
recNo == InRef((foo :> Str(no)) @@ (val :> Num(<<"1">>)))
recNaN == InRef((foo :> Str(yes)) @@ (val :> NaN))

\* An input of n records, recYes and recNo in turn.
LongItems(n) == [i \in 1..n |-> MapItem(IF i % 2 = 1 THEN recYes ELSE recNo)]

\* json: the whole input decodes into []map[string]any ("array": objects and
\* nulls), or into map[string]any ("object"), or into neither ("invalid"), or
\* is empty.
JSONInputs ==
    {[kind |-> "empty", items |-> <<>>], [kind |-> "invalid", items |-> <<>>]}
    \cup {[kind |-> "object", items |-> <<MapItem(r)>>] : r \in {recYes, recNo}}
    \cup {[kind |-> "array", items |-> its] :
            its \in SeqsUpTo({MapItem(recYes), MapItem(recNo), MapItem(NilRef)}, MaxItems)}
    \cup {[kind |-> "array", items |-> LongItems(ObjsCap + 2)]}

\* jsonl: the lines; "scanerr" is a line at which scanner.Scan() fails.
JSONLInputs ==
    {[kind |-> "lines", items |-> its] :
        its \in SeqsUpTo({MapItem(recYes), MapItem(recNo), Other("blank"), Other("bad"),
                          Other("scanerr")}, MaxItems)}

YAMLDocs ==
    { MapItem(recYes), MapItem(recNo), MapItem(recNaN),
      Item("seq", NilRef, <<>>),
      Item("seq", NilRef, <<MapItem(recNaN), Other("scalar"), MapItem(recNo)>>),
      Other("scalar"), Other("null"), Other("err") }

\* A stream whose third document has a syntax error.  The yaml parser keeps
\* its error: every later Decode returns it again, and never io.EOF.
BrokenStream == <<MapItem(recYes), MapItem(recNo), Other("syntax"), MapItem(recYes)>>

\* yaml: the documents, in order; "err" is a document whose Decode fails with
\* an error the decoder goes on from.
YAMLInputs ==
    {[kind |-> "docs", items |-> its] : its \in SeqsUpTo(YAMLDocs, MaxItems)}
    \cup {[kind |-> "docs", items |-> BrokenStream]}

CSVHeaders == <<foo, val>>

CSVRows ==
    { Item("row", NilRef, <<yes, no>>), Item("row", NilRef, <<no, yes>>),
      Item("row", NilRef, <<yes>>), Other("err") }

\* csv: the first Read() returns io.EOF ("eof"), an error ("badheader") or the
\* header row, and the items are the rows after it.
CSVInputs ==
    {[kind |-> "eof", items |-> <<>>], [kind |-> "badheader", items |-> <<>>]}
    \cup {[kind |-> "rows", items |-> its] : its \in SeqsUpTo(CSVRows, MaxItems)}

InputsOf(f) ==
    CASE f = "json" -> JSONInputs
      [] f = "jsonl" -> JSONLInputs
      [] f = "yaml" -> YAMLInputs
      [] f = "csv" -> CSVInputs

InputFormats == {"json", "jsonl", "yaml", "csv"}
OutputFormats == {"json", "jsonl", "jsonp", "yaml"}

\* The mapping configurations of the pipeline runs: nothing configured, and
\* drop-no-match with one common mapping and one rule.
PipeMappings ==
    { [MatchRule |-> "all", CommonOutput |-> <<>>, SpecificOutputs |-> <<>>],
      [MatchRule |-> "drop-no-match", CommonOutput |-> <<(baz :> Str(val))>>,
       SpecificOutputs |-> <<Rule(foo, Ptr(yes), NilPtr, <<>>, <<(extra :> Str(foo))>>)>>] }

PipeConfigs ==
    { [MatchRule |-> c.MatchRule, CommonOutput |-> c.CommonOutput,
       SpecificOutputs |-> c.SpecificOutputs, InputFormat |-> i, OutputFormat |-> o] :
        c \in PipeMappings, i \in InputFormats, o \in OutputFormats }

-----------------------------------------------------------------------------
(* the reader goroutine: readJSONInput, readYAMLInput, readCSVInput *)

Running == exited = "run"

\* csv: the record of a row, obj[headers[i]] = value for i < len(headers).
RowRecord(cells) ==
    InRef([k \in {CSVHeaders[i] : i \in 1..Len(CSVHeaders)} \cap
                 {CSVHeaders[i] : i \in 1..Len(cells)} |->
             Str(cells[CHOOSE i \in 1..Len(cells) : i <= Len(CSVHeaders) /\ CSVHeaders[i] = k])])

\* ItemAction with a yaml Decode error in the stream loop ending the run.
ItemAction_streamErrFatal(f, it) ==
    CASE f = "csv" ->
            IF it.kind = "row" /\ Len(it.sub) = Len(CSVHeaders)
            THEN [act |-> "rec", rec |-> RowRecord(it.sub)]
            ELSE [act |-> "skip", rec |-> NilRef]
      [] f = "jsonl" /\ it.kind = "scanerr" -> [act |-> "fatal", rec |-> NilRef]
      [] f = "yaml" /\ it.kind \in {"syntax", "err"} -> [act |-> "fatal", rec |-> NilRef]
      [] OTHER ->
            IF it.kind = "map" THEN [act |-> "rec", rec |-> it.rec]
            ELSE [act |-> "skip", rec |-> NilRef]

\* What the loop body of the reader does with an item: "rec" (call
\* processInput on rec), "skip" (log and continue), "again" (log and continue,
\* the decoder returning the same error at the next call) or "fatal"
\* (log.Fatalf).
\* The csv reader returns an error for a row whose number of fields differs
\* from the header's.
ItemAction(f, it) ==
    CASE f = "csv" ->
            IF it.kind = "row" /\ Len(it.sub) = Len(CSVHeaders)
            THEN [act |-> "rec", rec |-> RowRecord(it.sub)]
            ELSE [act |-> "skip", rec |-> NilRef]
      [] f = "jsonl" /\ it.kind = "scanerr" -> [act |-> "fatal", rec |-> NilRef]
      [] f = "yaml" /\ it.kind = "syntax" -> [act |-> "again", rec |-> NilRef]
      [] OTHER ->
            IF it.kind = "map" THEN [act |-> "rec", rec |-> it.rec]
            ELSE [act |-> "skip", rec |-> NilRef]

\* ReadJSON_Classify sending SingletonInput for an array too.
ReadJSON_Classify_arrayAsSingleton ==
    /\ Running /\ ppc = "start" /\ config.InputFormat = "json"
    /\ CASE input.kind = "empty" ->
                /\ ppc' = "closeType"
                /\ UNCHANGED <<work, ptag, exited>>
         [] input.kind \in {"array", "object"} ->
                /\ ppc' = "sendType"
                /\ ptag' = SingletonInput
                /\ work' = input.items
                /\ UNCHANGED exited
         [] OTHER ->
                /\ exited' = "fatal"
                /\ UNCHANGED <<ppc, work, ptag>>
    /\ UNCHANGED <<config, procVars, input, pidx, pending, objs, objsClosed, inputTypeChan,
                   typeClosed, cpc, inputType, formatter, writer, sent, handed, methods,
                   signals>>

\* ReadJSON_Classify sending ArrayInput for a single object too.
ReadJSON_Classify_objectAsArray ==
    /\ Running /\ ppc = "start" /\ config.InputFormat = "json"
    /\ CASE input.kind = "empty" ->
                /\ ppc' = "closeType"
                /\ UNCHANGED <<work, ptag, exited>>
         [] input.kind = "array" ->
                /\ ppc' = "sendType"
                /\ ptag' = ArrayInput
                /\ work' = input.items
                /\ UNCHANGED exited
         [] input.kind = "object" ->
                /\ ppc' = "sendType"
                /\ ptag' = ArrayInput
                /\ work' = input.items
                /\ UNCHANGED exited
         [] OTHER ->
                /\ exited' = "fatal"
                /\ UNCHANGED <<ppc, work, ptag>>
    /\ UNCHANGED <<config, procVars, input, pidx, pending, objs, objsClosed, inputTypeChan,
                   typeClosed, cpc, inputType, formatter, writer, sent, handed, methods,
                   signals>>

\* readJSONInput, json: io.ReadAll and the two json.Unmarshal attempts.
ReadJSON_Classify ==
    /\ Running /\ ppc = "start" /\ config.InputFormat = "json"
    /\ CASE input.kind = "empty" ->
                /\ ppc' = "closeType"
                /\ UNCHANGED <<work, ptag, exited>>
         [] input.kind = "array" ->
                /\ ppc' = "sendType"
                /\ ptag' = ArrayInput
                /\ work' = input.items
                /\ UNCHANGED exited
         [] input.kind = "object" ->
                /\ ppc' = "sendType"
                /\ ptag' = SingletonInput
                /\ work' = input.items
                /\ UNCHANGED exited
         [] OTHER ->
                /\ exited' = "fatal"
                /\ UNCHANGED <<ppc, work, ptag>>
    /\ UNCHANGED <<config, procVars, input, pidx, pending, objs, objsClosed, inputTypeChan,
                   typeClosed, cpc, inputType, formatter, writer, sent, handed, methods,
                   signals>>

\* ReadJSONL_Start with the send of the stream tag forgotten.
ReadJSONL_Start_noTag ==
    /\ Running /\ ppc = "start" /\ config.InputFormat = "jsonl"
    /\ ppc' = "loop"
    /\ ptag' = StreamInput
    /\ work' = input.items
    /\ UNCHANGED <<config, procVars, input, pidx, pending, objs, objsClosed, inputTypeChan,
                   typeClosed, cpc, inputType, formatter, writer, exited, sent, handed,
                   methods, signals>>

\* readJSONInput, jsonl: the stream tag is sent before anything is read.
ReadJSONL_Start ==
    /\ Running /\ ppc = "start" /\ config.InputFormat = "jsonl"
    /\ ppc' = "sendType"
    /\ ptag' = StreamInput
    /\ work' = input.items
    /\ UNCHANGED <<config, procVars, input, pidx, pending, objs, objsClosed, inputTypeChan,
                   typeClosed, cpc, inputType, formatter, writer, exited, sent, handed,
                   methods, signals>>

\* readYAMLInput: the first two Decode calls and the choice of the tag.
ReadYAML_Classify ==
    /\ Running /\ ppc = "start" /\ config.InputFormat = "yaml"
    /\ LET docs == input.items
       IN  IF Len(docs) = 0
           THEN ppc' = "closeType" /\ UNCHANGED <<work, ptag, exited>>
           ELSE IF docs[1].kind = "err"
           THEN exited' = "fatal" /\ UNCHANGED <<ppc, work, ptag>>
           ELSE IF Len(docs) = 1
           THEN IF docs[1].kind = "null"
                THEN exited' = "panic" /\ UNCHANGED <<ppc, work, ptag>>
                ELSE IF docs[1].kind = "seq"
                THEN /\ ppc' = "sendType"
                     /\ ptag' = ArrayInput
                     /\ work' = docs[1].sub
                     /\ UNCHANGED exited
                ELSE /\ ppc' = "sendType"
                     /\ ptag' = SingletonInput
                     /\ work' = docs
                     /\ UNCHANGED exited
           ELSE IF docs[2].kind = "err"
           THEN exited' = "fatal" /\ UNCHANGED <<ppc, work, ptag>>
           ELSE /\ ppc' = "sendType"
                /\ ptag' = StreamInput
                /\ work' = docs
                /\ UNCHANGED exited
    /\ UNCHANGED <<config, procVars, input, pidx, pending, objs, objsClosed, inputTypeChan,
                   typeClosed, cpc, inputType, formatter, writer, sent, handed, methods,
                   signals>>

\* ReadCSV_Start taking the rows for a stream.
ReadCSV_Start_stream ==
    /\ Running /\ ppc = "start" /\ config.InputFormat = "csv"
    /\ ppc' = "sendType"
    /\ ptag' = StreamInput
    /\ UNCHANGED <<config, procVars, input, work, pidx, pending, objs, objsClosed,
                   inputTypeChan, typeClosed, cpc, inputType, formatter, writer, exited,
                   sent, handed, methods, signals>>

\* readCSVInput: the array tag is sent before the header row is read.
ReadCSV_Start ==
    /\ Running /\ ppc = "start" /\ config.InputFormat = "csv"
    /\ ppc' = "sendType"
    /\ ptag' = ArrayInput
    /\ UNCHANGED <<config, procVars, input, work, pidx, pending, objs, objsClosed,
                   inputTypeChan, typeClosed, cpc, inputType, formatter, writer, exited,
                   sent, handed, methods, signals>>

\* SendInputType with the send inside the loop: the tag is sent again before
\* each item.
SendInputType_perItem ==
    /\ Running /\ ppc \in {"sendType", "loop"}
    /\ ppc = "loop" => (pidx <= Len(work) /\ Len(signals) = pidx - 1)
    /\ ~typeClosed
    /\ Len(inputTypeChan) < 1
    /\ inputTypeChan' = Append(inputTypeChan, ptag)
    /\ signals' = Append(signals, ptag)
    /\ ppc' = IF config.InputFormat = "csv" /\ ppc = "sendType" THEN "header" ELSE "loop"
    /\ UNCHANGED <<config, procVars, input, work, pidx, ptag, pending, objs, objsClosed,
                   typeClosed, cpc, inputType, formatter, writer, exited, sent, handed,
                   methods>>

\* inputTypeChan <- tag, on a channel of capacity 1.
SendInputType ==
    /\ Running /\ ppc = "sendType"
    /\ ~typeClosed
    /\ Len(inputTypeChan) < 1
    /\ inputTypeChan' = Append(inputTypeChan, ptag)
    /\ signals' = Append(signals, ptag)
    /\ ppc' = IF config.InputFormat = "csv" THEN "header" ELSE "loop"
    /\ UNCHANGED <<config, procVars, input, work, pidx, ptag, pending, objs, objsClosed,
                   typeClosed, cpc, inputType, formatter, writer, exited, sent, handed,
                   methods>>

\* ReadCSV_Header without the test for io.EOF: every error of the header read
\* is fatal.
ReadCSV_Header_eofFatal ==
    /\ Running /\ ppc = "header"
    /\ CASE input.kind \in {"eof", "badheader"} -> exited' = "fatal" /\ UNCHANGED <<ppc, work>>
         [] OTHER -> ppc' = "loop" /\ work' = input.items /\ UNCHANGED exited
    /\ UNCHANGED <<config, procVars, input, pidx, ptag, pending, objs, objsClosed,
                   inputTypeChan, typeClosed, cpc, inputType, formatter, writer, sent,
                   handed, methods, signals>>

\* readCSVInput: reader.Read() of the header row.
ReadCSV_Header ==
    /\ Running /\ ppc = "header"
    /\ CASE input.kind = "eof" -> ppc' = "closeType" /\ UNCHANGED <<work, exited>>
         [] input.kind = "badheader" -> exited' = "fatal" /\ UNCHANGED <<ppc, work>>
         [] OTHER -> ppc' = "loop" /\ work' = input.items /\ UNCHANGED exited
    /\ UNCHANGED <<config, procVars, input, pidx, ptag, pending, objs, objsClosed,
                   inputTypeChan, typeClosed, cpc, inputType, formatter, writer, sent,
                   handed, methods, signals>>

\* ReaderLoop leaving the loop at an item it cannot use, instead of going on
\* to the next one.
ReaderLoop_stopAtBad ==
    /\ Running /\ ppc = "loop"
    /\ IF pidx > Len(work)
       THEN /\ ppc' = "closeType"
            /\ UNCHANGED <<pidx, pending, exited>>
       ELSE LET a == ItemAction(config.InputFormat, work[pidx])
                res == processInput(a.rec, config)
            IN  CASE a.act = "fatal" ->
                        exited' = "fatal" /\ UNCHANGED <<ppc, pidx, pending>>
                  [] a.act = "rec" /\ res.ref # "nil" ->
                        ppc' = "send" /\ pending' = res /\ UNCHANGED <<pidx, exited>>
                  [] a.act = "skip" ->
                        ppc' = "closeType" /\ UNCHANGED <<pidx, pending, exited>>
                  [] a.act = "again" ->
                        UNCHANGED <<ppc, pidx, pending, exited>>
                  [] OTHER ->
                        pidx' = pidx + 1 /\ UNCHANGED <<ppc, pending, exited>>
    /\ UNCHANGED <<config, procVars, input, work, ptag, objs, objsClosed, inputTypeChan,
                   typeClosed, cpc, inputType, formatter, writer, sent, handed, methods,
                   signals>>

\* ReaderLoop with the test "result != nil" left out: every result is sent.
ReaderLoop_noNilTest ==
    /\ Running /\ ppc = "loop"
    /\ IF pidx > Len(work)
       THEN /\ ppc' = "closeType"
            /\ UNCHANGED <<pidx, pending, exited>>
       ELSE LET a == ItemAction(config.InputFormat, work[pidx])
                res == processInput(a.rec, config)
            IN  CASE a.act = "fatal" ->
                        exited' = "fatal" /\ UNCHANGED <<ppc, pidx, pending>>
                  [] a.act = "rec" ->
                        ppc' = "send" /\ pending' = res /\ UNCHANGED <<pidx, exited>>
                  [] a.act = "again" ->
                        UNCHANGED <<ppc, pidx, pending, exited>>
                  [] OTHER ->
                        pidx' = pidx + 1 /\ UNCHANGED <<ppc, pending, exited>>
    /\ UNCHANGED <<config, procVars, input, work, ptag, objs, objsClosed, inputTypeChan,
                   typeClosed, cpc, inputType, formatter, writer, sent, handed, methods,
                   signals>>

\* One turn of the reader's loop up to its send: the item is decoded and
\* processInput is called; a nil result and a skipped item lead to the next item.
ReaderLoop ==
    /\ Running /\ ppc = "loop"
    /\ IF pidx > Len(work)
       THEN /\ ppc' = "closeType"
            /\ UNCHANGED <<pidx, pending, exited>>
       ELSE LET a == ItemAction(config.InputFormat, work[pidx])
                res == processInput(a.rec, config)
            IN  CASE a.act = "fatal" ->
                        exited' = "fatal" /\ UNCHANGED <<ppc, pidx, pending>>
                  [] a.act = "rec" /\ res.ref # "nil" ->
                        ppc' = "send" /\ pending' = res /\ UNCHANGED <<pidx, exited>>
                  [] a.act = "again" ->
                        UNCHANGED <<ppc, pidx, pending, exited>>
                  [] OTHER ->
                        pidx' = pidx + 1 /\ UNCHANGED <<ppc, pending, exited>>
    /\ UNCHANGED <<config, procVars, input, work, ptag, objs, objsClosed, inputTypeChan,
                   typeClosed, cpc, inputType, formatter, writer, sent, handed, methods,
                   signals>>

\* SendObj on a queue that hands out the newest record first.
SendObj_lifo ==
    /\ Running /\ ppc = "send"
    /\ ~objsClosed
    /\ Len(objs) < ObjsCap
    /\ objs' = <<pending>> \o objs
    /\ sent' = Append(sent, pending)
    /\ pidx' = pidx + 1
    /\ ppc' = "loop"
    /\ UNCHANGED <<config, procVars, input, work, ptag, pending, objsClosed, inputTypeChan,
                   typeClosed, cpc, inputType, formatter, writer, exited, handed, methods,
                   signals>>

\* objs <- result: blocks while the channel holds ObjsCap records.
SendObj ==
    /\ Running /\ ppc = "send"
    /\ ~objsClosed
    /\ Len(objs) < ObjsCap
    /\ objs' = Append(objs, pending)
    /\ sent' = Append(sent, pending)
    /\ pidx' = pidx + 1
    /\ ppc' = "loop"
    /\ UNCHANGED <<config, procVars, input, work, ptag, pending, objsClosed, inputTypeChan,
                   typeClosed, cpc, inputType, formatter, writer, exited, handed, methods,
                   signals>>

\* The deferred close(inputTypeChan): the later defer runs first.
CloseInputType ==
    /\ Running /\ ppc = "closeType"
    /\ typeClosed' = TRUE
    /\ ppc' = "closeObjs"
    /\ UNCHANGED <<config, procVars, input, work, pidx, ptag, pending, objs, objsClosed,
                   inputTypeChan, cpc, inputType, formatter, writer, exited, sent, handed,
                   methods, signals>>

\* The deferred close(objs).
CloseObjs ==
    /\ Running /\ ppc = "closeObjs"
    /\ objsClosed' = TRUE
    /\ ppc' = "done"
    /\ UNCHANGED <<config, procVars, input, work, pidx, ptag, pending, objs, inputTypeChan,
                   typeClosed, cpc, inputType, formatter, writer, exited, sent, handed,
                   methods, signals>>

-----------------------------------------------------------------------------
(* the formatters *)

\* A chunk of output: a literal text, or the encoding of a record by
\* json.Marshal ("json"), json.MarshalIndent ("jsonp") or yaml.Marshal ("yaml").
Lit(text) == [enc |-> "lit", text |-> text, m |-> EmptyMap]
Enc(e, m) == [enc |-> e, text |-> "", m |-> m]

RECURSIVE HasNaN(_)
HasNaN(v) == v.t = "NaN" \/ (v.t = "map" /\ \E k \in DOMAIN v.m : HasNaN(v.m[k]))

\* json.Marshal(record) returns no error: it returns one for a NaN.
MarshalOK(m) == ~HasNaN(MapV(m))

\* A row handed to csv.Writer.Write, and its cells: a text as it is, or the
\* text json.Marshal gives for a value.
Row(cells) == [enc |-> "row", text |-> "", m |-> EmptyMap, cells |-> cells]
Raw(text) == [enc |-> "raw", s |-> text, v |-> Nil]
JSONCell(v) == [enc |-> "json", s |-> <<>>, v |-> v]

\* NewFormatter(&config, writer, inputType); the JSON formatters keep whether
\* the input type is SingletonInput.
NewFormatter(cfg, it) ==
    [format |-> cfg.OutputFormat, isFirst |-> TRUE, isSingletonInput |-> (it = SingletonInput)]

\* NewCSVFormatter(writer, config): the formatter keeps what its one call of
\* computeHeaderOrder returned.
NewCSVFormatter(cfg) ==
    { [format |-> "csv", isFirst |-> TRUE, isSingletonInput |-> FALSE, headerOrder |-> h] :
        h \in computeHeaderOrder(cfg) }

\* The formatters NewFormatter can return.
NewFormatters(cfg, it) ==
    IF cfg.OutputFormat = "csv" THEN NewCSVFormatter(cfg) ELSE {NewFormatter(cfg, it)}

\* CSVFormatter.WriteRecord with the string of a value in every cell, a
\* string or not.
CSVCell_allJSON(rec, h) ==
    IF h \in DOMAIN rec.m
    THEN IF ~HasNaN(rec.m[h]) THEN JSONCell(rec.m[h]) ELSE Raw(<<>>)
    ELSE Raw(<<>>)

\* row[i] of CSVFormatter.WriteRecord for the header h.
CSVCell(rec, h) ==
    IF h \in DOMAIN rec.m
    THEN IF rec.m[h].t = "string" THEN Raw(rec.m[h].s)
         ELSE IF ~HasNaN(rec.m[h]) THEN JSONCell(rec.m[h])
         ELSE Raw(<<>>)
    ELSE Raw(<<>>)

\* The chunks WriteHeader writes.
WriteHeader(f) ==
    CASE f.format = "json" -> IF f.isSingletonInput THEN <<>> ELSE <<Lit("[\n")>>
      [] f.format = "jsonp" -> IF f.isSingletonInput THEN <<>> ELSE <<Lit("[")>>
      [] f.format = "csv" ->
            <<Row([i \in 1..Len(f.headerOrder) |-> Raw(f.headerOrder[i])])>>
      [] OTHER -> <<>>

\* The separator of the JSON array formatters.
Separator(f) == IF f.format = "json" THEN Lit(",\n") ELSE Lit(",")

\* WriteRecord of the YAML formatter leaving the separator out before the
\* first record.
WriteRecord_noLeadingSep(f, rec) ==
    CASE f.format \in {"json", "jsonp"} ->
            (IF ~f.isSingletonInput /\ ~f.isFirst THEN <<Separator(f)>> ELSE <<>>)
            \o (IF MarshalOK(rec.m) THEN <<Enc(f.format, rec.m)>> ELSE <<>>)
      [] f.format = "jsonl" ->
            IF MarshalOK(rec.m) THEN <<Enc("json", rec.m), Lit("\n")>> ELSE <<>>
      [] OTHER ->
            IF f.isFirst THEN <<Enc("yaml", rec.m)>> ELSE <<Lit("---\n"), Enc("yaml", rec.m)>>

\* WriteRecord of the JSON array formatters with the test of isSingletonInput
\* left out: every record but the first gets the separator.
WriteRecord_sepWhateverTag(f, rec) ==
    CASE f.format \in {"json", "jsonp"} ->
            (IF ~f.isFirst THEN <<Separator(f)>> ELSE <<>>)
            \o (IF MarshalOK(rec.m) THEN <<Enc(f.format, rec.m)>> ELSE <<>>)
      [] f.format = "jsonl" ->
            IF MarshalOK(rec.m) THEN <<Enc("json", rec.m), Lit("\n")>> ELSE <<>>
      [] OTHER -> <<Lit("---\n"), Enc("yaml", rec.m)>>

\* The chunks WriteRecord writes.
WriteRecord(f, rec) ==
    CASE f.format \in {"json", "jsonp"} ->
            (IF ~f.isSingletonInput /\ ~f.isFirst THEN <<Separator(f)>> ELSE <<>>)
            \o (IF MarshalOK(rec.m) THEN <<Enc(f.format, rec.m)>> ELSE <<>>)
      [] f.format = "jsonl" ->
            IF MarshalOK(rec.m) THEN <<Enc("json", rec.m), Lit("\n")>> ELSE <<>>
      [] f.format = "csv" ->
            <<Row([i \in 1..Len(f.headerOrder) |-> CSVCell(rec, f.headerOrder[i])])>>
      [] OTHER -> <<Lit("---\n"), Enc("yaml", rec.m)>>

\* The formatter after WriteRecord: the JSON array formatters clear isFirst.
AfterWriteRecord(f) ==
    IF f.format \in {"json", "jsonp"} THEN [f EXCEPT !.isFirst = FALSE] ELSE f

\* WriteFooter of the YAML formatter writing an end-of-stream marker.
WriteFooter_yamlTrailer(f) ==
    CASE f.format = "json" -> IF f.isSingletonInput THEN <<>> ELSE <<Lit("\n]")>>
      [] f.format = "jsonp" -> IF f.isSingletonInput THEN <<>> ELSE <<Lit("]")>>
      [] f.format = "yaml" -> <<Lit("...\n")>>
      [] OTHER -> <<>>

\* The chunks WriteFooter writes.
WriteFooter(f) ==
    CASE f.format = "json" -> IF f.isSingletonInput THEN <<>> ELSE <<Lit("\n]")>>
      [] f.format = "jsonp" -> IF f.isSingletonInput THEN <<>> ELSE <<Lit("]")>>
      [] OTHER -> <<>>

-----------------------------------------------------------------------------
(* main *)

\* RecvInputType with ArrayInput as the value read from the closed channel.
RecvInputType_defaultArray ==
    /\ Running /\ cpc = "recvType"
    /\ \/ /\ Len(inputTypeChan) > 0
          /\ inputType' = Head(inputTypeChan)
          /\ inputTypeChan' = Tail(inputTypeChan)
       \/ /\ Len(inputTypeChan) = 0 /\ typeClosed
          /\ inputType' = ArrayInput
          /\ UNCHANGED inputTypeChan
    /\ formatter' \in NewFormatters(config, inputType')
    /\ cpc' = "header"
    /\ UNCHANGED <<config, procVars, input, ppc, work, pidx, ptag, pending, objs, objsClosed,
                   typeClosed, writer, exited, sent, handed, methods, signals>>

\* inputType := <-inputTypeChan, then NewFormatter.  A closed and empty
\* channel gives the zero value, SingletonInput.
RecvInputType ==
    /\ Running /\ cpc = "recvType"
    /\ \/ /\ Len(inputTypeChan) > 0
          /\ inputType' = Head(inputTypeChan)
          /\ inputTypeChan' = Tail(inputTypeChan)
       \/ /\ Len(inputTypeChan) = 0 /\ typeClosed
          /\ inputType' = SingletonInput
          /\ UNCHANGED inputTypeChan
    /\ formatter' \in NewFormatters(config, inputType')
    /\ cpc' = "header"
    /\ UNCHANGED <<config, procVars, input, ppc, work, pidx, ptag, pending, objs, objsClosed,
                   typeClosed, writer, exited, sent, handed, methods, signals>>

\* CallWriteHeader on a formatter made before the input type is received.
CallWriteHeader_early ==
    /\ Running /\ cpc \in {"recvType", "header"}
    /\ writer' = writer \o WriteHeader(formatter)
    /\ methods' = Append(methods, "WriteHeader")
    /\ cpc' = IF cpc = "header" THEN "records" ELSE cpc
    /\ UNCHANGED <<config, procVars, input, ppc, work, pidx, ptag, pending, objs, objsClosed,
                   inputTypeChan, typeClosed, inputType, formatter, exited, sent, handed,
                   signals>>

\* formatter.WriteHeader()
CallWriteHeader ==
    /\ Running /\ cpc = "header"
    /\ writer' = writer \o WriteHeader(formatter)
    /\ methods' = Append(methods, "WriteHeader")
    /\ cpc' = "records"
    /\ UNCHANGED <<config, procVars, input, ppc, work, pidx, ptag, pending, objs, objsClosed,
                   inputTypeChan, typeClosed, inputType, formatter, exited, sent, handed,
                   signals>>

\* for obj := range objs { formatter.WriteRecord(obj) }: one record.
CallWriteRecord ==
    /\ Running /\ cpc = "records"
    /\ Len(objs) > 0
    /\ objs' = Tail(objs)
    /\ writer' = writer \o WriteRecord(formatter, Head(objs))
    /\ formatter' = AfterWriteRecord(formatter)
    /\ handed' = Append(handed, Head(objs))
    /\ methods' = Append(methods, "WriteRecord")
    /\ UNCHANGED <<config, procVars, input, ppc, work, pidx, ptag, pending, objsClosed,
                   inputTypeChan, typeClosed, cpc, inputType, exited, sent, signals>>

\* RangeEnds leaving the loop as soon as the channel is empty, closed or not.
RangeEnds_early ==
    /\ Running /\ cpc = "records"
    /\ Len(objs) = 0
    /\ cpc' = "footer"
    /\ UNCHANGED <<config, procVars, input, ppc, work, pidx, ptag, pending, objs, objsClosed,
                   inputTypeChan, typeClosed, inputType, formatter, writer, exited, sent,
                   handed, methods, signals>>

\* The range over objs ends: the channel is closed and empty.
RangeEnds ==
    /\ Running /\ cpc = "records"
    /\ Len(objs) = 0 /\ objsClosed
    /\ cpc' = "footer"
    /\ UNCHANGED <<config, procVars, input, ppc, work, pidx, ptag, pending, objs, objsClosed,
                   inputTypeChan, typeClosed, inputType, formatter, writer, exited, sent,
                   handed, methods, signals>>

\* formatter.WriteFooter(), and main returns.
CallWriteFooter ==
    /\ Running /\ cpc = "footer"
    /\ writer' = writer \o WriteFooter(formatter)
    /\ methods' = Append(methods, "WriteFooter")
    /\ cpc' = "done"
    /\ exited' = "returned"
    /\ UNCHANGED <<config, procVars, input, ppc, work, pidx, ptag, pending, objs, objsClosed,
                   inputTypeChan, typeClosed, inputType, formatter, sent, handed, signals>>

-----------------------------------------------------------------------------
(* the pipeline *)

Init ==
    /\ config \in PipeConfigs
    /\ input \in InputsOf(config.InputFormat)
    /\ record = NilRef
    /\ result = NoResult
    /\ headerCalls = <<>>
    /\ call = NoCall
    /\ PipeStart

Reader ==
    \/ ReadJSON_Classify
    \/ ReadJSONL_Start
    \/ ReadYAML_Classify
    \/ ReadCSV_Start
    \/ SendInputType
    \/ ReadCSV_Header
    \/ ReaderLoop
    \/ SendObj
    \/ CloseInputType
    \/ CloseObjs

Main ==
    \/ RecvInputType
    \/ CallWriteHeader
    \/ CallWriteRecord
    \/ RangeEnds
    \/ CallWriteFooter

Next == Reader \/ Main

Spec == Init /\ [][Next]_vars

\* The pipeline with both goroutines scheduled fairly: a goroutine that can
\* take a step is not left waiting for ever.
\* WF_vars(Reader) is written out, with the states in which the reader can
\* take a step that changes the state given by its position.
ReaderCanStep ==
    /\ Running
    /\ CASE ppc = "sendType" -> ~typeClosed /\ Len(inputTypeChan) < 1
         [] ppc = "send" -> ~objsClosed /\ Len(objs) < ObjsCap
         [] ppc = "loop" ->
               ~(pidx <= Len(work)
                  /\ ItemAction(config.InputFormat, work[pidx]).act = "again")
         [] ppc = "done" -> FALSE
         [] OTHER -> TRUE

SpecFair ==
    /\ Init /\ [][Next]_vars
    /\ ([]<>(~ReaderCanStep) \/ []<><<Reader>>_vars)
    /\ WF_vars(Main)

\* The mapping configurations of the runs with csv output: a rule whose
\* output gives the header, a common mapping of two keys, nothing configured.
CSVMappings ==
    { [MatchRule |-> "all", CommonOutput |-> <<>>,
       SpecificOutputs |->
           <<Rule(foo, Ptr(yes), NilPtr, <<>>,
                  <<(extra :> Str(val)), (foo :> Str(foo)), (baz :> Str(baz))>>)>>],
      [MatchRule |-> "all", CommonOutput |-> <<(val :> Str(val)) @@ (baz :> Str(foo))>>,
       SpecificOutputs |-> <<>>],
      [MatchRule |-> "all", CommonOutput |-> <<>>, SpecificOutputs |-> <<>>] }

CSVConfigs ==
    { [MatchRule |-> c.MatchRule, CommonOutput |-> c.CommonOutput,
       SpecificOutputs |-> c.SpecificOutputs, InputFormat |-> i, OutputFormat |-> "csv"] :
        c \in CSVMappings, i \in InputFormats }

\* The pipeline started with -o csv.
InitCSV ==
    /\ config \in CSVConfigs
    /\ input \in InputsOf(config.InputFormat)
    /\ record = NilRef
    /\ result = NoResult
    /\ headerCalls = <<>>
    /\ call = NoCall
    /\ PipeStart

SpecCSV == InitCSV /\ [][Next]_vars

-----------------------------------------------------------------------------
(* the main that calls readJSONInput itself for -i json *)

\* isSingletonInput = readJSONInput(objs, config), up to the loop: the input
\* is read and unmarshalled as an array of objects, then as an object; there
\* is no test for an empty input, which unmarshals as neither.  ptag holds the
\* value the function is going to return.
ReadJSONSync_Classify ==
    /\ Running /\ ppc = "start" /\ cpc = "recvType"
    /\ CASE input.kind = "array" ->
                /\ ppc' = "loop"
                /\ ptag' = ArrayInput
                /\ work' = input.items
                /\ UNCHANGED exited
         [] input.kind = "object" ->
                /\ ppc' = "loop"
                /\ ptag' = SingletonInput
                /\ work' = input.items
                /\ UNCHANGED exited
         [] OTHER ->
                /\ exited' = "fatal"
                /\ UNCHANGED <<ppc, work, ptag>>
    /\ UNCHANGED <<config, procVars, input, pidx, pending, objs, objsClosed, inputTypeChan,
                   typeClosed, cpc, inputType, formatter, writer, sent, handed, methods,
                   signals>>

\* readJSONInput returns: the deferred close(objs) runs and main assigns the
\* result to isSingletonInput.
ReadJSONSync_Return ==
    /\ Running /\ ppc = "closeType"
    /\ objsClosed' = TRUE
    /\ inputType' = ptag
    /\ ppc' = "done"
    /\ UNCHANGED <<config, procVars, input, work, pidx, ptag, pending, objs, inputTypeChan,
                   typeClosed, cpc, formatter, writer, exited, sent, handed, methods,
                   signals>>

\* NewFormatter(&config, writer, isSingletonInput), once readJSONInput has
\* returned.
NewFormatterSync ==
    /\ Running /\ cpc = "recvType" /\ ppc = "done"
    /\ formatter' \in NewFormatters(config, inputType)
    /\ cpc' = "header"
    /\ UNCHANGED <<config, procVars, input, ppc, work, pidx, ptag, pending, objs, objsClosed,
                   inputTypeChan, typeClosed, inputType, writer, exited, sent, handed,
                   methods, signals>>

\* The pipeline started with -i json.
InitSync ==
    /\ config \in {c \in PipeConfigs : c.InputFormat = "json"}
    /\ input \in JSONInputs
    /\ record = NilRef
    /\ result = NoResult
    /\ headerCalls = <<>>
    /\ call = NoCall
    /\ PipeStart

\* main, with the reader as a part of it: one thread.
MainSync ==
    \/ ReadJSONSync_Classify
    \/ ReaderLoop
    \/ SendObj
    \/ ReadJSONSync_Return
    \/ NewFormatterSync
    \/ CallWriteHeader
    \/ CallWriteRecord
    \/ RangeEnds
    \/ CallWriteFooter

NextSync == MainSync

SpecSync == InitSync /\ [][NextSync]_vars

\* Main can take a step: it has not ended and is not in a send on the full
\* queue.  This is ENABLED <<NextSync>>_vars, written out.
MainSyncCanStep == Running /\ (ppc = "send" => Len(objs) < ObjsCap)

\* The one thread runs while it can: WF_vars(NextSync).
SpecSyncFair ==
    /\ InitSync /\ [][NextSync]_vars
    /\ ([]<>(~MainSyncCanStep) \/ []<><<NextSync>>_vars)

-----------------------------------------------------------------------------
(* properties of processInput *)

Returned == result # NoResult

\* The indices of the rules of the configuration that match the current record.
Matching == {i \in 1..Len(config.SpecificOutputs) : Check(config.SpecificOutputs[i], record)}

Lowest(S) == CHOOSE i \in S : \A j \in S : i <= j

CommonMapped == applyFieldMappings(record, convertFieldMappings(config.CommonOutput))

RuleMapped(i) ==
    applyFieldMappings(record, convertFieldMappings(config.SpecificOutputs[i].Output))

\* The common mappings merged with those of the lowest matching rule, if any.
Merged ==
    IF Matching = {} THEN CommonMapped
    ELSE MapsCopy(CommonMapped, RuleMapped(Lowest(Matching)))

\* C1: first match wins.  When some rule matches, the mapped output is the
\* common mappings overwritten by the mappings of the lowest-index matching
\* rule alone: a key that only a later matching rule writes is not in the
\* result, and a key of the result that a later matching rule also writes
\* holds the value of the lowest rule, or the common value.
C1_FirstMatchWins ==
    (Returned /\ Matching # {}) =>
        LET own == RuleMapped(Lowest(Matching))
        IN  /\ result.ref = "new" => result.m = MapsCopy(CommonMapped, own)
            /\ result.ref = "in" => DOMAIN MapsCopy(CommonMapped, own) = {}
            /\ result.ref # "nil"
            /\ result.ref = "new" =>
                 \A j \in Matching \ {Lowest(Matching)} : \A k \in DOMAIN RuleMapped(j) :
                    \/ k \notin DOMAIN result.m
                    \/ k \in DOMAIN own /\ result.m[k] = own[k]
                    \/ k \notin DOMAIN own /\ k \in DOMAIN CommonMapped
                         /\ result.m[k] = CommonMapped[k]

\* C1 witness: two rules match and a key of the later one is absent from the result.
C1_Witness ==
    /\ Returned
    /\ result.ref = "new"
    /\ Cardinality(Matching) >= 2
    /\ \E j \in Matching \ {Lowest(Matching)} :
          \E k \in DOMAIN RuleMapped(j) : k \notin DOMAIN result.m

\* C2: drop policy.  For a non-nil record the result is nil exactly when
\* matchRule is "drop-no-match" and no rule matches.
C2_DropPolicy ==
    (Returned /\ record.ref # "nil") =>
        (result.ref = "nil" <=> (config.MatchRule = "drop-no-match" /\ Matching = {}))

\* C2 witness: a record is dropped although the common mappings produced keys.
C2_Witness ==
    /\ Returned
    /\ record.ref # "nil"
    /\ result.ref = "nil"
    /\ Cardinality(DOMAIN CommonMapped) >= 2

\* C3: pass-through.  A result that is not dropped and whose merged output has
\* no key is the input record itself; with no common mapping, matchRule "all"
\* and no matching rule the result is the input record.
C3_PassThrough ==
    Returned =>
        /\ (result.ref # "nil" /\ DOMAIN Merged = {}) => result = record
        /\ (config.CommonOutput = <<>> /\ config.MatchRule = "all" /\ Matching = {}) =>
               result = record

\* C3 witness: a non-empty record is passed through under "all" with no common
\* mapping and rules that do not match.
C3_Witness ==
    /\ Returned
    /\ result.ref = "in"
    /\ result = record
    /\ DOMAIN record.m # {}
    /\ config.CommonOutput = <<>>
    /\ config.MatchRule = "all"
    /\ config.SpecificOutputs # <<>>
    /\ Matching = {}

Unconditional ==
    {i \in 1..Len(config.SpecificOutputs) :
        /\ config.SpecificOutputs[i].And = <<>>
        /\ config.SpecificOutputs[i].Eq = NilPtr
        /\ config.SpecificOutputs[i].Matches = NilPtr}

\* C5 as stated: a rule with an empty and-list and neither eq nor matches
\* matches every record.
C5_AlwaysMatches ==
    Returned => \A i \in Unconditional : Check(config.SpecificOutputs[i], record)

\* C5, amended: a rule with an empty and-list and neither eq nor matches
\* matches exactly the records in which its field resolves to a string.
C5_MatchesStringField ==
    \A i \in Unconditional :
        Check(config.SpecificOutputs[i], record)
            <=> getValueByPath(record, config.SpecificOutputs[i].Field).t = "string"

\* C5 witness: processInput has merged the mappings of such a rule.
C5_Witness ==
    /\ Returned
    /\ result.ref = "new"
    /\ Matching # {}
    /\ Lowest(Matching) \in Unconditional
    /\ getValueByPath(record, config.SpecificOutputs[Lowest(Matching)].Field).t = "string"

-----------------------------------------------------------------------------
(* properties of the pipeline *)

IsPrefix(a, b) == Len(a) <= Len(b) /\ SubSeq(b, 1, Len(a)) = a

RECURSIVE RecsOf(_, _)
\* The records among items that the reader of format f calls processInput on,
\* in order, up to an item at which it ends the run.
RecsOf(f, items) ==
    IF items = <<>> THEN <<>>
    ELSE LET a == ItemAction(f, Head(items))
         IN  IF a.act = "fatal" THEN <<>>
             ELSE (IF a.act = "rec" THEN <<a.rec>> ELSE <<>>) \o RecsOf(f, Tail(items))

\* The records of the input, in input order.
InputRecords ==
    IF config.InputFormat = "yaml" /\ Len(input.items) = 1 /\ input.items[1].kind = "seq"
    THEN RecsOf("yaml", input.items[1].sub)
    ELSE RecsOf(config.InputFormat, input.items)

RECURSIVE NonDropped(_)
\* The processInput results of recs that are not the dropped signal, in order.
NonDropped(recs) ==
    IF recs = <<>> THEN <<>>
    ELSE LET r == processInput(Head(recs), config)
         IN  (IF r.ref = "nil" THEN <<>> ELSE <<r>>) \o NonDropped(Tail(recs))

Completed == exited = "returned"

\* C6: output order is input order.  At every moment the records handed to
\* WriteRecord followed by those in the queue are the records sent, and are the
\* first of the non-dropped processInput results in input order; when main
\* returns, every one of them has been handed to WriteRecord.
C6_OutputOrderIsInputOrder ==
    /\ sent = handed \o objs
    /\ IsPrefix(sent, NonDropped(InputRecords))
    /\ Completed => handed = NonDropped(InputRecords)

\* C6 witness: a run of more records than the queue holds has completed, with
\* differing records next to each other.
C6_Witness ==
    /\ Completed
    /\ Len(handed) > ObjsCap
    /\ handed = NonDropped(InputRecords)
    /\ \E i \in 1..(Len(handed) - 1) : handed[i] # handed[i + 1]

\* json and yaml: the input is empty.
EmptyInput ==
    \/ config.InputFormat = "json" /\ input.kind = "empty"
    \/ config.InputFormat = "yaml" /\ Len(input.items) = 0

C8_TagFixedBeforeOutput ==
    /\ [](methods # <<>> =>
            /\ cpc # "recvType"
            /\ formatter # NoFormatter
            /\ formatter.isSingletonInput = (inputType = SingletonInput))
    /\ [][cpc # "recvType" =>
            /\ inputType' = inputType
            /\ formatter'.isSingletonInput = formatter.isSingletonInput
            /\ formatter'.format = formatter.format]_vars

\* C8 witness: header, records and footer have been written for an array input.
C8_Witness ==
    /\ Completed
    /\ inputType = ArrayInput
    /\ Len(handed) >= 2
    /\ methods[1] = "WriteHeader"
    /\ methods[Len(methods)] = "WriteFooter"

RECURSIVE Joined(_, _, _)
\* The encodings of recs with sep between consecutive ones.
Joined(recs, e, sep) ==
    IF recs = <<>> THEN <<>>
    ELSE IF Len(recs) = 1 THEN <<Enc(e, recs[1].m)>>
    ELSE <<Enc(e, recs[1].m), sep>> \o Joined(Tail(recs), e, sep)

\* The records handed to WriteRecord that json.Marshal encodes.
Serialized == SelectSeq(handed, LAMBDA r : MarshalOK(r.m))

\* C9: shape preservation of the JSON array formatters.  With a non-singleton
\* input type and at least one serialized record the output is the opening
\* bracket, the serialized records with one separator between consecutive ones
\* and none before the first or after the last, and the closing bracket; with
\* the singleton input type the output is the records alone, without brackets.
C9_JSONShapePreserved ==
    (Completed /\ config.OutputFormat \in {"json", "jsonp"}) =>
        IF inputType = SingletonInput
        THEN writer = Joined(Serialized, config.OutputFormat, Separator(formatter))
        ELSE Len(Serialized) >= 1 =>
                writer = WriteHeader(formatter)
                         \o Joined(Serialized, config.OutputFormat, Separator(formatter))
                         \o WriteFooter(formatter)

\* The number of "---" separators in the output.
YAMLSeparators == Len(SelectSeq(writer, LAMBDA c : c = Lit("---\n")))

\* C10 as stated: the YAML formatter writes "---" before every record except
\* the first: N - 1 separators for N records, none at the start of the output.
C10_SeparatorExceptFirst ==
    (Completed /\ config.OutputFormat = "yaml" /\ Len(handed) >= 1) =>
        /\ YAMLSeparators = Len(handed) - 1
        /\ writer[1] # Lit("---\n")

RECURSIVE YAMLDocuments(_)
YAMLDocuments(recs) ==
    IF recs = <<>> THEN <<>>
    ELSE <<Lit("---\n"), Enc("yaml", recs[1].m)>> \o YAMLDocuments(Tail(recs))

\* C10, amended: whatever the input type, the YAML formatter writes each record
\* as its own document and "---" before every record, the first included: N
\* separators for N records, and the output begins with "---" when N >= 1.
C10_SeparatorBeforeEvery ==
    (config.OutputFormat = "yaml" /\ cpc # "recvType") =>
        /\ writer = YAMLDocuments(handed)
        /\ YAMLSeparators = Len(handed)
        /\ Len(handed) >= 1 => writer[1] = Lit("---\n")

\* C10 witness: a YAML stream of two records has been written.
C10_Witness ==
    /\ Completed
    /\ config.OutputFormat = "yaml"
    /\ inputType = StreamInput
    /\ Len(handed) = 2

-----------------------------------------------------------------------------
(* properties of the formatters and of the readers *)

YAMLArrayRun == config.OutputFormat = "yaml" /\ cpc # "recvType" /\ inputType = ArrayInput

\* C11, as stated: with the Array tag the YAML formatter writes nothing until
\* the footer (WriteRecord only buffers) and never writes a document separator.
C11_ArrayBufferedUntilFooter ==
    YAMLArrayRun =>
        /\ cpc # "done" => writer = <<>>
        /\ \A i \in 1..Len(writer) : writer[i] # Lit("---\n")

\* C11, amended: with the Array tag every WriteRecord of the YAML formatter
\* writes at once the separator and the record as a document of its own, in the
\* order the records are handed over, and WriteFooter writes nothing.
C11_ArrayWrittenPerRecord ==
    [][YAMLArrayRun =>
        /\ Len(handed') = Len(handed) + 1 =>
              writer' = writer \o <<Lit("---\n"), Enc("yaml", handed'[Len(handed')].m)>>
        /\ (cpc = "footer" /\ cpc' = "done") => writer' = writer]_vars

C11_Witness ==
    /\ YAMLArrayRun
    /\ cpc = "done"
    /\ Len(handed) >= 2
    /\ Len(writer) = 2 * Len(handed)

InputTypes == {SingletonInput, ArrayInput, StreamInput}

RECURSIVE FormatterAfter(_, _, _)
\* The formatter NewFormatter makes for the tag t, after n calls of WriteRecord.
FormatterAfter(cfg, t, n) ==
    IF n = 0 THEN NewFormatter(cfg, t) ELSE AfterWriteRecord(FormatterAfter(cfg, t, n - 1))

\* The chunks that the next WriteRecord call of the run would write, had the
\* formatter been made for the tag t and received the same calls so far.
NextWrite(t) == WriteRecord(FormatterAfter(config, t, Len(handed)), Head(objs))

AboutToWrite == cpc = "records" /\ objs # <<>>

\* C12, as stated: what a WriteRecord call writes does not depend on the tag;
\* formatters of one format that differ only in the tag write the same chunks
\* in each call of the same sequence of WriteRecord calls.
C12_WriteRecordIgnoresTag ==
    AboutToWrite => \A t1, t2 \in InputTypes : NextWrite(t1) = NextWrite(t2)

\* C12, amended: the formatter of the run is the one made for its tag after
\* the calls so far, and what WriteRecord writes depends on the tag only for
\* json and jsonp and only in a call after the first, where the separator is
\* written exactly when the tag is not Singleton; Array and Stream never
\* differ, nor do the tags in the first call or for jsonl and yaml.
C12_OnlySeparatorDependsOnTag ==
    AboutToWrite =>
        /\ formatter = FormatterAfter(config, inputType, Len(handed))
        /\ NextWrite(ArrayInput) = NextWrite(StreamInput)
        /\ (Len(handed) = 0 \/ config.OutputFormat \in {"jsonl", "yaml"}) =>
              NextWrite(SingletonInput) = NextWrite(ArrayInput)
        /\ (Len(handed) > 0 /\ config.OutputFormat \in {"json", "jsonp"}) =>
              /\ NextWrite(ArrayInput) = <<Separator(formatter)>> \o NextWrite(SingletonInput)
              /\ NextWrite(SingletonInput) # NextWrite(ArrayInput)

C12_Witness ==
    /\ AboutToWrite
    /\ Len(handed) > 0
    /\ config.OutputFormat = "json"
    /\ inputType = ArrayInput
    /\ writer[Len(writer)] # Separator(formatter)

-----------------------------------------------------------------------------
(* properties of computeHeaderOrder *)

\* The list entries computeHeaderOrder walks, in declared order.
HeaderEntries == config.CommonOutput \o RuleOutputs(config.SpecificOutputs)

HeaderKeys == UNION {DOMAIN HeaderEntries[i] : i \in 1..Len(HeaderEntries)}

CommonKeys == UNION {DOMAIN config.CommonOutput[i] : i \in 1..Len(config.CommonOutput)}

\* The index of the first entry that carries the key k.
FirstEntry(k) ==
    CHOOSE i \in 1..Len(HeaderEntries) :
        /\ k \in DOMAIN HeaderEntries[i]
        /\ \A j \in 1..(i - 1) : k \notin DOMAIN HeaderEntries[j]

\* C13: every sequence computeHeaderOrder returns holds exactly the top-level
\* keys of the commonOutput entries and of the rules' output entries, each key
\* once, ordered by the entry of its first occurrence (common entries in
\* declared order, then the rules' entries in declared order), so that every
\* common key precedes every key that only rule outputs carry.
C13_HeaderOrder ==
    \A n \in 1..Len(headerCalls) :
        LET h == headerCalls[n]
        IN  /\ {h[i] : i \in 1..Len(h)} = HeaderKeys
            /\ \A i, j \in 1..Len(h) : h[i] = h[j] => i = j
            /\ \A i, j \in 1..Len(h) : i < j => FirstEntry(h[i]) <= FirstEntry(h[j])
            /\ \A i, j \in 1..Len(h) :
                  (h[i] \in CommonKeys /\ h[j] \notin CommonKeys) => i < j

C13_Witness ==
    /\ Len(headerCalls) >= 1
    /\ Len(headerCalls[1]) >= 3
    /\ Len(HeaderEntries) > Len(headerCalls[1])
    /\ \E i \in 1..Len(headerCalls[1]) : headerCalls[1][i] \notin CommonKeys
    /\ CommonKeys # {}

\* C14: computeHeaderOrder is deterministic and independent of the records:
\* all its evaluations under one configuration return the same sequence,
\* whatever was processed in between.
C14_HeadersDeterministic ==
    \A i, j \in 1..Len(headerCalls) : headerCalls[i] = headerCalls[j]

-----------------------------------------------------------------------------
(* properties of the readers *)

JSONRun == config.InputFormat = "json"

\* The reader goroutine has left its loop and runs, or has run, its deferred closes.
ReaderReturned == ppc \in {"closeType", "closeObjs", "done"}

\* The tag and the records of a reader so far are those of the tag t and of
\* the items its: nothing but t is signalled, t is signalled before the first
\* record, and the records sent are the non-dropped processInput results of
\* the items in their order, all of them once the reader has returned.
Emits(t, its) ==
    /\ IsPrefix(signals, <<t>>)
    /\ (sent # <<>> \/ ReaderReturned) => signals = <<t>>
    /\ IsPrefix(sent, NonDropped(RecsOf(config.InputFormat, its)))
    /\ ReaderReturned => sent = NonDropped(RecsOf(config.InputFormat, its))
    /\ exited \in {"run", "returned"}

\* The run can only end in the reader's fatal error, before any tag or record.
OnlyFatal ==
    /\ signals = <<>> /\ sent = <<>>
    /\ ppc = "start"
    /\ exited \in {"run", "fatal"}

\* C15, as stated: an input that decodes neither as an array nor as a single
\* object ends the run in a fatal parse error, no tag or record being emitted.
C15_FatalUnlessArrayOrObject ==
    (JSONRun /\ input.kind \notin {"array", "object"}) => OnlyFatal

\* C15, amended: a non-empty input that decodes as an array gives the tag
\* Array and its elements in array order, otherwise one that decodes as a
\* single object gives the tag Singleton and that object, otherwise the run
\* ends in a fatal parse error without tag or record; an empty input is not a
\* parse error, the reader returns without tag or record.
C15_JSONClassification ==
    JSONRun =>
        CASE input.kind = "array" -> Emits(ArrayInput, input.items)
          [] input.kind = "object" ->
                Emits(SingletonInput, input.items) /\ Len(input.items) = 1
          [] input.kind = "invalid" -> OnlyFatal
          [] OTHER -> signals = <<>> /\ sent = <<>> /\ exited # "fatal"

C15_Witness ==
    /\ JSONRun
    /\ input.kind = "array"
    /\ Completed
    /\ Len(handed) >= 2
    /\ handed[1] # handed[2]
    /\ signals = <<ArrayInput>>

YAMLRun == config.InputFormat = "yaml"

\* yaml: the input holds n documents or more and Decode fails on none of the
\* first two.
Decodes(n) ==
    /\ Len(input.items) >= n
    /\ \A i \in 1..Len(input.items) : i <= 2 => input.items[i].kind # "err"

\* C16: YAML input is classified by its number of documents.  Exactly one
\* document gives the tag Array and its mapping elements in order when it is a
\* sequence, and the tag Singleton and the document itself, when a mapping,
\* otherwise; two documents or more give the tag Stream and the mapping
\* documents in order, the first two included, the others being skipped.
C16_YAMLClassification ==
    (YAMLRun /\ Decodes(1)) =>
        CASE Len(input.items) = 1 /\ input.items[1].kind = "seq" ->
                Emits(ArrayInput, input.items[1].sub)
          [] Len(input.items) = 1 -> Emits(SingletonInput, input.items)
          [] OTHER -> Emits(StreamInput, input.items)

\* C17: empty JSON or YAML input is not fatal.  The reader sends no tag and no
\* record and closes both channels; main reads SingletonInput from the closed
\* channel, the formatter is the one of a singleton input, and header and
\* footer write nothing: the output stays empty and main returns after
\* WriteHeader and WriteFooter alone.
C17_EmptyInputNotFatal ==
    EmptyInput =>
        /\ exited \in {"run", "returned"}
        /\ signals = <<>> /\ inputTypeChan = <<>>
        /\ sent = <<>> /\ objs = <<>>
        /\ ppc = "done" => typeClosed /\ objsClosed
        /\ cpc # "recvType" =>
              /\ typeClosed
              /\ inputType = SingletonInput
              /\ formatter = NewFormatter(config, SingletonInput)
              /\ WriteHeader(formatter) = <<>> /\ WriteFooter(formatter) = <<>>
        /\ writer = <<>>
        /\ Completed => methods = <<"WriteHeader", "WriteFooter">>

C17_Witness ==
    /\ EmptyInput
    /\ Completed
    /\ config.OutputFormat = "json"
    /\ ppc = "done"

CSVRun == config.InputFormat = "csv"

\* C18, as stated: when the header read of readCSVInput returns end-of-input
\* the run ends in a fatal error: the reader never gets past the header and
\* main never returns.
C18_EmptyCSVFatal ==
    (CSVRun /\ input.kind = "eof") =>
        /\ ppc \in {"start", "sendType", "header"}
        /\ exited \in {"run", "fatal"}

\* C18, amended: end-of-input at the header read is not fatal.  The reader,
\* which has sent ArrayInput already, returns with no record and closes both
\* channels, and main finishes with nothing handed to WriteRecord; only another
\* error of the header read ends the run in a fatal error.
C18_EmptyCSVReturns ==
    CSVRun =>
        /\ input.kind = "eof" =>
              /\ exited \in {"run", "returned"}
              /\ Emits(ArrayInput, <<>>)
              /\ ppc = "done" => typeClosed /\ objsClosed
              /\ Completed => inputType = ArrayInput /\ handed = <<>>
        /\ input.kind = "badheader" =>
              /\ ppc \in {"start", "sendType", "header"}
              /\ exited \in {"run", "fatal"}
              /\ sent = <<>>

C18_Witness ==
    /\ CSVRun
    /\ input.kind = "eof"
    /\ Completed
    /\ ppc = "done"
    /\ signals = <<ArrayInput>>

\* The tag the format alone fixes: StreamInput for jsonl, ArrayInput for csv.
FormatTag == IF config.InputFormat = "jsonl" THEN StreamInput ELSE ArrayInput

\* C19: for jsonl and csv input the tag is fixed by the format alone.  The
\* reader signals nothing but StreamInput (jsonl) or ArrayInput (csv), has
\* signalled it once it reads the first line or the header row, whatever the
\* input holds, and that tag is the one main receives.
C19_TagFixedByFormat ==
    config.InputFormat \in {"jsonl", "csv"} =>
        /\ IsPrefix(signals, <<FormatTag>>)
        /\ ppc \notin {"start", "sendType"} => signals = <<FormatTag>>
        /\ cpc # "recvType" => inputType = FormatTag

\* C19 witness: the run of a jsonl input whose lines are all malformed has
\* completed, main having received StreamInput and no record.
C19_Witness ==
    /\ Completed
    /\ config.InputFormat = "jsonl"
    /\ Len(input.items) >= 2
    /\ \A i \in 1..Len(input.items) : input.items[i].kind = "bad"
    /\ inputType = StreamInput
    /\ handed = <<>>

\* What processInput returns for the records of the input, the dropped signal
\* left out.
KeptResults ==
    {r \in {processInput(InputRecords[i], config) : i \in 1..Len(InputRecords)} :
        r.ref # "nil"}

\* C20: dropped records never reach the formatter.  What the reader is about
\* to send is the non-nil result of the item at hand; the records sent so far
\* are the results of the items gone through with the dropped ones left out;
\* and every record in the queue or passed to WriteRecord is a non-nil
\* processInput result of a record of the input.
C20_DroppedNeverReachFormatter ==
    /\ ppc = "send" =>
          /\ pending.ref # "nil"
          /\ pending = processInput(ItemAction(config.InputFormat, work[pidx]).rec, config)
    /\ ppc \in {"loop", "send"} =>
          sent = NonDropped(RecsOf(config.InputFormat, SubSeq(work, 1, pidx - 1)))
    /\ LET kept == KeptResults
       IN  /\ \A i \in 1..Len(sent) : sent[i] \in kept
           /\ \A i \in 1..Len(objs) : objs[i] \in kept
           /\ \A i \in 1..Len(handed) : handed[i] \in kept

\* C20 witness: a run has completed in which a record was dropped between two
\* records that were written.
C20_Witness ==
    /\ Completed
    /\ Len(InputRecords) >= 3
    /\ Len(handed) >= 2
    /\ \E i \in 2..(Len(InputRecords) - 1) :
          processInput(InputRecords[i], config).ref = "nil"

-----------------------------------------------------------------------------
(* properties of getValueByPath *)

RECURSIVE Resolve(_, _)
\* The value found by going down from v one segment at a time: absent (nil)
\* as soon as the value at hand is not a mapping or lacks the segment as a key.
Resolve(v, segs) ==
    IF segs = <<>> THEN v
    ELSE IF v.t # "map" THEN Nil
    ELSE IF Head(segs) \notin DOMAIN v.m THEN Nil
    ELSE Resolve(v.m[Head(segs)], Tail(segs))

PathCalled == call.fn = "getValueByPath"

\* C21: getValueByPath(record, path) splits the path on "." and goes down one
\* segment at a time: it returns the value found when every value on the way
\* is a mapping that has the next segment as a key, and nil as soon as a value
\* on the way is not a mapping or a key is missing; it returns for every
\* record and path and leaves the record as it was.
C21_PathDescent ==
    PathCalled =>
        /\ Split(call.path, dot) = call.segs
        /\ call.ret = Resolve(MapV(call.rec.m), call.segs)
        /\ record = call.rec

\* C21 witness: a path of three segments has been followed to a string, two
\* mappings deep.
C21_Witness ==
    /\ PathCalled
    /\ Len(call.segs) = 3
    /\ call.ret.t = "string"

\* C22: getValueByPath returns nil for the empty path on every record,
\* records that have the empty string as a key included.
C22_EmptyPathAbsent ==
    (PathCalled /\ call.path = empty) => call.ret = Nil

-----------------------------------------------------------------------------
(* properties of applyMapping *)

MappingCalled == call.fn = "applyMapping"

\* The specification of the call is a regex-extract one.
RegexCalled ==
    /\ MappingCalled
    /\ call.outSpec.t = "map"
    /\ {src, regex, value} \subseteq DOMAIN call.outSpec.m

\* The strings of a regex-extract specification; an entry that is not a
\* string counts as the empty string.
SpecText(key) ==
    IF call.outSpec.m[key].t = "string" THEN call.outSpec.m[key].s ELSE empty

\* The value the src path of the specification resolves to.
SrcValue == Resolve(MapV(call.rec.m), Split(SpecText(src), dot))

\* The four conditions: src resolves to a string, the pattern compiles, the
\* search finds a match in that string, the template is not empty.
FourConditions ==
    /\ SrcValue.t = "string"
    /\ Compiles(SpecText(regex))
    /\ MatchString(SpecText(regex), SrcValue.s)
    /\ SpecText(value) # empty

\* C23: a regex-extract mapping writes its key exactly when src resolves to a
\* string, the pattern compiles, the search finds a match and the template is
\* not empty; then only that key changes and it holds a string, and in every
\* other case the output record is left as it was.
C23_RegexWritesIffFourConditions ==
    RegexCalled =>
        IF FourConditions
        THEN /\ call.name \in DOMAIN call.ret
             /\ call.ret[call.name].t = "string"
             /\ DOMAIN call.ret = DOMAIN call.out \cup {call.name}
             /\ \A k \in DOMAIN call.out : k # call.name => call.ret[k] = call.out[k]
        ELSE call.ret = call.out

\* C23 witness: a call under the four conditions has replaced the value the
\* key held before.
C23_Witness ==
    /\ RegexCalled
    /\ FourConditions
    /\ call.name \in DOMAIN call.out
    /\ call.ret # call.out

\* The capture groups of the match of the call: what FindStringSubmatch
\* returns after the whole match.
Captures == Tail(FindStringSubmatch(SpecText(regex), SrcValue.s))

RECURSIVE Replaced(_, _, _)
\* The template after the placeholders $1 .. $n have been replaced by the
\* groups 1 .. n, one after the other in increasing order.
Replaced(template, groups, n) ==
    IF n = 0 THEN template
    ELSE ReplaceAll(Replaced(template, groups, n - 1), <<"$">> \o Itoa(n), groups[n])

\* C24: the string a regex-extract mapping writes is the template after
\* replacing, for i = 1, 2, ... up to the number of capture groups and in that
\* order, every occurrence of the text $i by group i: a plain textual
\* replacement, the result of one step being the text the next works on.  So
\* "hello-123" with hello-(...) and the template number=$1 gives number=123.
C24_TemplateSubstitution ==
    (RegexCalled /\ FourConditions) =>
        /\ call.ret[call.name] = Str(Replaced(SpecText(value), Captures, Len(Captures)))
        /\ (SrcValue.s = hello123 /\ Len(Captures) = 1 /\ Len(SpecText(regex)) > 7
                /\ SpecText(value) = <<"n", "u", "m", "b", "e", "r", "=", "$", "1">>) =>
              call.ret[call.name] = Str(<<"n", "u", "m", "b", "e", "r", "=", "1", "2", "3">>)

\* C24 witness: the template $2$1 has been filled with two different groups.
C24_Witness ==
    /\ RegexCalled
    /\ FourConditions
    /\ Len(Captures) = 2
    /\ Captures[1] # Captures[2]
    /\ SpecText(value) = <<"$", "2", "$", "1">>
    /\ call.ret[call.name] = Str(Captures[2] \o Captures[1])

-----------------------------------------------------------------------------
(* further properties of processInput and of the Check methods *)

\* C25: as the comment of processInput states, when no rule matches and
\* matchRule is "all", processInput returns the original record.
C25_AllReturnsOriginal ==
    (Returned /\ Matching = {} /\ config.MatchRule = "all") => result = record

-----------------------------------------------------------------------------
(* properties of the calls of processInput and of the Check methods *)

SimpleCalled == MappingCalled /\ call.outSpec.t = "string"

ProcessCalled == call.fn = "processInput"

\* The keys that the common mappings of the configuration of the call give a
\* simple path.
SimpleCommonKeys ==
    UNION { {k \in DOMAIN call.cfg.CommonOutput[i] : call.cfg.CommonOutput[i][k].t = "string"} :
              i \in 1..Len(call.cfg.CommonOutput) }

\* C26: a simple path mapping always writes its key.  After applyMapping with
\* a string as the specification, the output holds fieldName with the value
\* the path resolves to, nil when it is absent, and its other keys as before;
\* and processInput under a configuration with a simple path in commonOutput
\* never passes the record through for want of mapped keys: what it returns is
\* nil (dropped) or a new record holding the keys of the simple paths.
C26_SimplePathAlwaysWrites ==
    /\ SimpleCalled =>
          /\ call.name \in DOMAIN call.ret
          /\ call.ret[call.name] = Resolve(MapV(call.rec.m), Split(call.outSpec.s, dot))
          /\ DOMAIN call.ret = DOMAIN call.out \cup {call.name}
          /\ \A k \in DOMAIN call.out \ {call.name} : call.ret[k] = call.out[k]
    /\ (ProcessCalled /\ SimpleCommonKeys # {}) =>
          /\ call.ret.ref \in {"nil", "new"}
          /\ call.ret.ref = "nil" => call.cfg.MatchRule = "drop-no-match"
          /\ call.ret.ref = "new" => SimpleCommonKeys \subseteq DOMAIN call.ret.m

\* C26 witness: a simple path that is absent from the record writes nil under
\* its key.
C26_Witness ==
    /\ SimpleCalled
    /\ call.out = EmptyMap
    /\ call.rec.ref = "in"
    /\ call.ret = (call.name :> Nil)

\* C26, second witness of the same case for processInput: the only common
\* mapping is a simple path that is absent, no rule matches, and the result is
\* a new record with a nil value.
C26_ProcessWitness ==
    /\ ProcessCalled
    /\ call.cfg.MatchRule = "all"
    /\ call.cfg.SpecificOutputs = <<>>
    /\ call.rec = InRef(EmptyMap)
    /\ call.ret = NewRef(baz :> Nil)


\* C27: rule mappings overwrite common mappings.  When a rule matches, every
\* key its output writes holds the rule's value in the result, also where a
\* common mapping writes the same key, and every key written by the common
\* mappings alone holds its common value.
C27_RuleOverwritesCommon ==
    (Returned /\ Matching # {}) =>
        LET rule == RuleMapped(Lowest(Matching))
        IN  /\ (DOMAIN rule \cup DOMAIN CommonMapped # {}) => result.ref = "new"
            /\ result.ref = "new" =>
                 /\ \A k \in DOMAIN rule : k \in DOMAIN result.m /\ result.m[k] = rule[k]
                 /\ \A k \in DOMAIN CommonMapped \ DOMAIN rule :
                       k \in DOMAIN result.m /\ result.m[k] = CommonMapped[k]

\* C27 witness: the matching rule and the common mappings write one key with
\* different values, and the common mappings write another key alone.
C27_Witness ==
    /\ Returned
    /\ Matching # {}
    /\ result.ref = "new"
    /\ \E k \in DOMAIN RuleMapped(Lowest(Matching)) \cap DOMAIN CommonMapped :
          RuleMapped(Lowest(Matching))[k] # CommonMapped[k]
    /\ DOMAIN CommonMapped \ DOMAIN RuleMapped(Lowest(Matching)) # {}


AndChecked == call.fn = "AndCondition.Check"

RuleChecked == call.fn = "SpecificOutputRule.Check"

\* The value the path of a field resolves to in the record of the call.
FieldValue(f) == Resolve(MapV(call.rec.m), Split(f, dot))

\* C28: a field that is not a string never matches.  When rule.field resolves
\* to a value that is not a string, SpecificOutputRule.Check returns false
\* whatever eq, matches and the and-list are, and AndCondition.Check returns
\* false when the field of the condition resolves to a value that is not a
\* string.
C28_NonStringFieldFails ==
    /\ (RuleChecked /\ FieldValue(call.r.Field).t # "string") => call.ret = FALSE
    /\ (AndChecked /\ FieldValue(call.ac.Field).t # "string") => call.ret = FALSE

\* C28 witness: a rule with neither eq nor matches and an empty and-list is
\* checked on a record whose field holds a number, and does not match.
C28_Witness ==
    /\ RuleChecked
    /\ FieldValue(call.r.Field).t = "float64"
    /\ call.r.Eq = NilPtr
    /\ call.r.Matches = NilPtr
    /\ call.r.And = <<>>
    /\ call.ret = FALSE

\* s[i..j] is text that the pattern p, taken as a whole, describes.
Describes(p, s, i, j) ==
    LET as == Atoms(p)
    IN  /\ j - i + 1 = Len(as)
        /\ \A n \in 1..Len(as) : as[n] = s[i + n - 1] \/ (as[n] = "." /\ s[i + n - 1] # "\n")

\* The pattern compiles and some part of s, anywhere in s, is described by it.
Found(p, s) ==
    /\ Compiles(p)
    /\ \E i \in 1..(Len(s) + 1) : \E j \in (i - 1)..Len(s) : Describes(p, s, i, j)

\* C29: AndCondition.Check evaluates at most one of eq and matches.  On a
\* string field it returns the comparison with eq when eq is present,
\* whatever matches is; otherwise, when matches is present, whether the
\* pattern compiles and is found somewhere in the string; and false when
\* neither is present.
C29_AtMostOneEvaluated ==
    (AndChecked /\ FieldValue(call.ac.Field).t = "string") =>
        LET s == FieldValue(call.ac.Field).s
        IN  /\ call.ac.Eq # NilPtr => call.ret = (s = call.ac.Eq[1])
            /\ (call.ac.Eq = NilPtr /\ call.ac.Matches # NilPtr) =>
                   call.ret = Found(call.ac.Matches[1], s)
            /\ (call.ac.Eq = NilPtr /\ call.ac.Matches = NilPtr) => call.ret = FALSE

\* C29 witness: eq holds, matches is present and its pattern is not found in
\* the string, and the condition holds.
C29_Witness ==
    /\ AndChecked
    /\ FieldValue(call.ac.Field).t = "string"
    /\ call.ac.Eq # NilPtr
    /\ call.ac.Matches # NilPtr
    /\ ~Found(call.ac.Matches[1], FieldValue(call.ac.Field).s)
    /\ call.ret = TRUE

\* C29, the search is not anchored: a pattern found in the middle of the
\* string holds.
C29_Unanchored ==
    /\ AndChecked
    /\ call.ac.Eq = NilPtr
    /\ call.ac.Matches = Ptr(<<"o">>)
    /\ FieldValue(call.ac.Field) = Str(hello123)
    /\ call.ret = TRUE

\* The top-level condition of the rule of the call, as a condition of an and-list.
TopLevel == Cond(call.r.Field, call.r.Eq, call.r.Matches)

\* C30: a top-level condition and an and-list condition with the same field,
\* eq and matches have the same truth value on every record, whether both,
\* one or none of eq and matches are present.
C30_SameTruthValue ==
    (RuleChecked /\ call.r.And = <<>>) => call.ret = AndConditionCheck(TopLevel, call.rec)

\* C30 as the code has it: the two agree when the field is not a string (both
\* false) and when exactly one of eq and matches is present.  With both
\* present the top level needs eq and matches to hold while the and-list
\* condition is the eq comparison alone; with neither present the top level
\* holds on a string field while the and-list condition fails.
C30_SameWhenOnePresent ==
    (RuleChecked /\ call.r.And = <<>>) =>
        LET v == FieldValue(call.r.Field)
            and == AndConditionCheck(TopLevel, call.rec)
            both == call.r.Eq # NilPtr /\ call.r.Matches # NilPtr
            none == call.r.Eq = NilPtr /\ call.r.Matches = NilPtr
        IN  /\ v.t # "string" => (call.ret = FALSE /\ and = FALSE)
            /\ (v.t = "string" /\ ~both /\ ~none) => call.ret = and
            /\ (v.t = "string" /\ both) =>
                  /\ and = (v.s = call.r.Eq[1])
                  /\ call.ret = (v.s = call.r.Eq[1] /\ Found(call.r.Matches[1], v.s))
            /\ (v.t = "string" /\ none) => (call.ret = TRUE /\ and = FALSE)

\* C30 witness: eq and matches are both present, eq holds and the pattern is
\* not found: the rule does not match while the same condition in an and-list
\* holds.
C30_Witness ==
    /\ RuleChecked
    /\ call.r.And = <<>>
    /\ call.r.Eq # NilPtr
    /\ call.r.Matches # NilPtr
    /\ call.ret = FALSE
    /\ AndConditionCheck(TopLevel, call.rec) = TRUE

-----------------------------------------------------------------------------
(* properties of the csv formatter and of the pipeline *)

CSVOut == config.OutputFormat = "csv"

\* The cells of the header row for the header order h.
HeaderCells(h) == [i \in 1..Len(h) |-> Raw(h[i])]

\* What the claim has for the cell of header k in the row of rec.
EncodedCell(rec, k) ==
    IF k \notin DOMAIN rec.m THEN Raw(<<>>)
    ELSE IF rec.m[k].t = "string" THEN Raw(rec.m[k].s)
    ELSE JSONCell(rec.m[k])

\* The same, a value for which json.Marshal returns an error (a NaN, or a
\* mapping holding one) giving the empty cell.
EncodedOrEmptyCell(rec, k) ==
    IF k \in DOMAIN rec.m /\ rec.m[k].t # "string" /\ HasNaN(rec.m[k]) THEN Raw(<<>>)
    ELSE EncodedCell(rec, k)

\* The first row written is a header order of the configuration, whatever
\* the input type, and one row follows for each record handed to
\* WriteRecord, with as many cells as the header.
CSVRowsWritten ==
    /\ formatter.headerOrder \in computeHeaderOrder(config)
    /\ Len(writer) = 1 + Len(handed)
    /\ writer[1] = Row(HeaderCells(formatter.headerOrder))
    /\ \A n \in 1..Len(handed) :
          /\ writer[n + 1].enc = "row"
          /\ Len(writer[n + 1].cells) = Len(formatter.headerOrder)

\* C31: the csv formatter.  WriteHeader writes computeHeaderOrder(config)
\* whatever the input type; every WriteRecord writes one row of len(headers)
\* cells in header order, the cell of a header missing from the record being
\* empty, a string written as it is and any other value JSON-encoded; keys of
\* the record that are not headers are not written.
C31_CellsJSONEncoded ==
    (CSVOut /\ methods # <<>>) =>
        /\ CSVRowsWritten
        /\ \A n \in 1..Len(handed) : \A i \in 1..Len(formatter.headerOrder) :
              writer[n + 1].cells[i] = EncodedCell(handed[n], formatter.headerOrder[i])

\* C31 as the code has it: as above, except that a value json.Marshal cannot
\* encode gives the empty cell.
C31_CellsEncodedOrEmpty ==
    (CSVOut /\ methods # <<>>) =>
        /\ CSVRowsWritten
        /\ \A n \in 1..Len(handed) : \A i \in 1..Len(formatter.headerOrder) :
              writer[n + 1].cells[i] = EncodedOrEmptyCell(handed[n], formatter.headerOrder[i])

\* C31 witness: the rows written hold a string as it is, a JSON-encoded
\* value, an empty cell for a header the record lacks and an empty cell for a
\* NaN, and a record handed over has a key that is not a header.
C31_Witness ==
    /\ CSVOut
    /\ Completed
    /\ \E n \in 1..Len(handed) : \E i \in 1..Len(formatter.headerOrder) :
          /\ formatter.headerOrder[i] \notin DOMAIN handed[n].m
          /\ writer[n + 1].cells[i] = Raw(<<>>)
          /\ DOMAIN handed[n].m \ {formatter.headerOrder[j] : j \in 1..Len(formatter.headerOrder)} # {}
    /\ \E n \in 1..Len(handed) : \E i \in 1..Len(formatter.headerOrder) :
          writer[n + 1].cells[i] = Raw(yes)
    /\ \E n \in 1..Len(handed) : \E i \in 1..Len(formatter.headerOrder) :
          writer[n + 1].cells[i] = JSONCell(Nil)
    /\ \E n \in 1..Len(handed) : \E i \in 1..Len(formatter.headerOrder) :
          /\ formatter.headerOrder[i] \in DOMAIN handed[n].m
          /\ handed[n].m[formatter.headerOrder[i]] = NaN
          /\ writer[n + 1].cells[i] = Raw(<<>>)


\* The number of calls of the formatter method name so far.
Calls(name) == Len(SelectSeq(methods, LAMBDA x : x = name))

\* C32: the formatter call protocol.  Main calls WriteHeader exactly once and
\* before any WriteRecord, WriteRecord once for each record it received from
\* the queue and in the order received, and WriteFooter exactly once, last,
\* and only when the queue is closed and every record sent has been received.
C32_CallProtocol ==
    /\ methods # <<>> =>
          /\ methods[1] = "WriteHeader"
          /\ Calls("WriteHeader") = 1
    /\ cpc \in {"records", "footer", "done"} => Calls("WriteHeader") = 1
    /\ Calls("WriteRecord") = Len(handed)
    /\ sent = handed \o objs
    /\ Calls("WriteFooter") <= 1
    /\ Calls("WriteFooter") = 1 =>
          /\ methods[Len(methods)] = "WriteFooter"
          /\ objsClosed
          /\ objs = <<>>
          /\ handed = sent
    /\ Completed => Calls("WriteFooter") = 1

\* C32 witness: a run has ended with WriteHeader, two calls of WriteRecord or
\* more and WriteFooter.
C32_Witness ==
    /\ Completed
    /\ Len(methods) >= 4
    /\ methods[1] = "WriteHeader"
    /\ methods[Len(methods)] = "WriteFooter"
    /\ \A i \in 2..(Len(methods) - 1) : methods[i] = "WriteRecord"


Aborted == exited \in {"fatal", "panic"}

\* The reader cannot send, the queue being full, while main cannot receive
\* the input type, its channel being empty and open.
BothBlocked ==
    /\ ppc = "send" /\ Len(objs) >= ObjsCap
    /\ cpc = "recvType" /\ inputTypeChan = <<>> /\ ~typeClosed

\* The reader has closed the queue, main has drained it and called WriteFooter.
Drained == objsClosed /\ objs = <<>> /\ Calls("WriteFooter") = 1

\* C33: termination without deadlock.  Under fair scheduling of reader and
\* main, every run that does not abort on a fatal error reaches the state
\* where the reader has closed the queue and main has drained it and called
\* WriteFooter, whatever the number of records; and the reader is never
\* blocked on the full queue while main still waits for the input type.
C33_Terminates == [](~BothBlocked) /\ <>(Aborted \/ Drained)


\* The reader is in the loop of the yaml stream at a document whose error the
\* decoder returns at every call.
DecoderRepeats ==
    ppc = "loop" /\ pidx <= Len(work)
    /\ ItemAction(config.InputFormat, work[pidx]).act = "again"

\* Apart from the runs in which the yaml decoder repeats its error, every run
\* ends as C33 has it.
TerminatesUnlessDecoderRepeats == [](~BothBlocked) /\ <>(Aborted \/ Drained \/ DecoderRepeats)


\* The items the reader's loop goes through: the elements of the sequence
\* for a YAML input of one sequence document, the items of the input otherwise.
LoopItems ==
    IF config.InputFormat = "yaml" /\ Len(input.items) = 1 /\ input.items[1].kind = "seq"
    THEN input.items[1].sub
    ELSE input.items

\* An item with a per-item error: a JSONL line that is not JSON, a YAML
\* document of a stream or an element of a YAML array that is not a mapping, a
\* CSV row for which the reader returns an error.
BadItem(it) ==
    CASE config.InputFormat = "jsonl" -> it.kind = "bad"
      [] config.InputFormat = "yaml" -> it.kind \in {"scalar", "seq", "null"}
      [] config.InputFormat = "csv" ->
            it.kind = "err" \/ (it.kind = "row" /\ Len(it.sub) # Len(CSVHeaders))
      [] OTHER -> FALSE

\* A well-formed item, and its record.
GoodItem(it) ==
    IF config.InputFormat = "csv" THEN it.kind = "row" /\ Len(it.sub) = Len(CSVHeaders)
    ELSE it.kind = "map"

GoodRecord(it) == IF config.InputFormat = "csv" THEN RowRecord(it.sub) ELSE it.rec

RECURSIVE GoodRecords(_)
\* The records of the well-formed items of its, in order.
GoodRecords(its) ==
    IF its = <<>> THEN <<>>
    ELSE (IF GoodItem(Head(its)) THEN <<GoodRecord(Head(its))>> ELSE <<>>)
         \o GoodRecords(Tail(its))

\* The input is a JSONL, CSV or YAML input read item by item (a YAML stream
\* or a YAML array) all of whose items are well-formed, blank lines or items
\* with a per-item error.
ItemErrorsOnly ==
    /\ config.InputFormat \in {"jsonl", "yaml", "csv"}
    /\ config.InputFormat = "csv" => input.kind = "rows"
    /\ config.InputFormat = "yaml" =>
          Len(input.items) >= 2 \/ (Len(input.items) = 1 /\ input.items[1].kind = "seq")
    /\ \A i \in 1..Len(LoopItems) :
          GoodItem(LoopItems[i]) \/ BadItem(LoopItems[i]) \/ LoopItems[i].kind = "blank"

\* C34: per-item errors are recoverable.  An input whose only errors are
\* malformed JSONL lines, non-mapping documents of a YAML stream, non-mapping
\* elements of a YAML array or CSV rows with a reader error does not abort the
\* run: the items with an error are skipped and, when the run has ended, the
\* records written are the results of all the well-formed items, those after
\* an error included, in input order.
C34_ItemErrorsSkipped ==
    ItemErrorsOnly =>
        /\ ~Aborted
        /\ IsPrefix(handed, NonDropped(GoodRecords(LoopItems)))
        /\ Completed => handed = NonDropped(GoodRecords(LoopItems))

\* C34 witness: a run has ended in which an item with an error came before a
\* well-formed item whose result was written.
C34_Witness ==
    /\ ItemErrorsOnly
    /\ Completed
    /\ Len(LoopItems) >= 2
    /\ BadItem(LoopItems[1])
    /\ GoodItem(LoopItems[Len(LoopItems)])
    /\ handed # <<>>
    /\ handed[Len(handed)] = processInput(GoodRecord(LoopItems[Len(LoopItems)]), config)


\* What a call of processInput returns as a function of the record and the
\* configuration alone: dropped, the record itself, or the merged mappings.
Outcome ==
    IF config.MatchRule = "drop-no-match" /\ Matching = {} THEN NilRef
    ELSE IF DOMAIN Merged = {} THEN record
    ELSE NewRef(Merged)

\* C35: processInput has no side effect on its inputs.  A call leaves its
\* record and the configuration as they were, the configuration is the same
\* throughout, and after any sequence of earlier calls on other records the
\* result is the one fixed by the record and the configuration alone.
C35_NoSideEffects ==
    /\ [][/\ config' = config
          /\ (result = NoResult /\ result' # NoResult) => record' = record]_vars
    /\ [](Returned => result = Outcome)

\* C35 witness: a call on a record with two keys has returned a new record
\* that differs from it, and the record still has its two keys.
C35_Witness ==
    /\ Returned
    /\ result.ref = "new"
    /\ record.ref = "in"
    /\ Cardinality(DOMAIN record.m) = 2
    /\ result.m # record.m
    /\ DOMAIN result.m \cap DOMAIN record.m # {}


\* The input type main reads, or has read, is SingletonInput: it was sent, or
\* the channel was closed with nothing sent.
ReadsSingleton ==
    \/ signals # <<>> /\ signals[1] = SingletonInput
    \/ signals = <<>> /\ typeClosed

\* C36: a singleton run has at most one record.  When the input type main
\* reads is SingletonInput, sent or defaulted, at most one record is ever sent
\* on the queue, so that a JSON formatter made for a singleton input is handed
\* at most one record and never writes two records without a separator.
C36_SingletonAtMostOne ==
    /\ ReadsSingleton => Len(sent) <= 1
    /\ (cpc # "recvType" /\ inputType = SingletonInput) => (ReadsSingleton /\ Len(handed) <= 1)
    /\ (formatter # NoFormatter /\ formatter.isSingletonInput) =>
          Len(SelectSeq(writer, LAMBDA c : c.enc \in {"json", "jsonp"})) <= 1

\* C36 witness: a run on a single object has ended with the JSON array
\* formatter in singleton mode and one record written.
C36_Witness ==
    /\ Completed
    /\ signals = <<SingletonInput>>
    /\ config.OutputFormat = "json"
    /\ formatter.isSingletonInput
    /\ Len(sent) = 1
    /\ Len(writer) = 1


-----------------------------------------------------------------------------
(* properties of the csv columns and of the channels *)

\* processInput has returned the output it built, not the record and not nil.
Reshaped == Returned /\ result.ref = "new"

\* C37: csv output loses no mapped field.  When processInput returns the
\* output it built, every top-level key of it is an element of every sequence
\* computeHeaderOrder returns for the configuration, so that the field has a
\* column.
C37_MappedKeysAreHeaders ==
    Reshaped =>
        \A k \in DOMAIN result.m :
            /\ \A h \in computeHeaderOrder(config) : contains(h, k)
            /\ \A n \in 1..Len(headerCalls) : contains(headerCalls[n], k)

\* C37 witness: a result with a key from the common output and a key that
\* only the matching rule carries, after computeHeaderOrder was called.
C37_Witness ==
    /\ Reshaped
    /\ Len(headerCalls) >= 1
    /\ \E k \in DOMAIN result.m : k \in CommonKeys
    /\ \E k \in DOMAIN result.m : k \notin CommonKeys


\* The reader is running its deferred closes or has run them.
Closing == ppc \in {"closeType", "closeObjs", "done"}

\* C38: channel safety of the reader.  A reader sends at most once on
\* inputTypeChan, and that send finds the channel empty and open, so it does
\* not block; each channel is closed in one step only, taken after the reader
\* has left its loop, and stays closed; the reader that has returned has
\* closed both; nothing is sent on a channel once the reader has started to
\* close.
C38_ChannelSafety ==
    /\ [][/\ typeClosed => typeClosed'
          /\ objsClosed => objsClosed'
          /\ typeClosed' # typeClosed => (ppc = "closeType" /\ ppc' = "closeObjs")
          /\ objsClosed' # objsClosed => (ppc = "closeObjs" /\ ppc' = "done" /\ typeClosed)
          /\ Closing => (Closing' /\ signals' = signals /\ sent' = sent)
          /\ ppc = "closeObjs" => ppc' # "closeType"
          /\ ppc = "done" => ppc' = "done"]_vars
    /\ [](/\ Len(signals) <= 1
          /\ ppc = "sendType" => (signals = <<>> /\ inputTypeChan = <<>> /\ ~typeClosed)
          /\ typeClosed => ppc \in {"closeObjs", "done"}
          /\ objsClosed => ppc = "done"
          /\ ppc = "done" => (typeClosed /\ objsClosed))

\* C38 witness: a reader that sent its input type and two records has
\* returned with both channels closed.
C38_Witness ==
    /\ ppc = "done"
    /\ typeClosed /\ objsClosed
    /\ Len(signals) = 1
    /\ Len(sent) >= 2


\* The run was ended by log.Fatalf.
Fatal == exited = "fatal"

\* C39: for json and yaml input a fatal error comes before the input type.
\* When log.Fatalf ends a run on json or yaml input, no input type and no
\* record was sent, main is still at its receive on inputTypeChan, no method
\* of a formatter was called and nothing was written.
C39_FatalBeforeInputType ==
    (Fatal /\ config.InputFormat \in {"json", "yaml"}) =>
        /\ signals = <<>>
        /\ inputTypeChan = <<>>
        /\ sent = <<>>
        /\ cpc = "recvType"
        /\ formatter = NoFormatter
        /\ methods = <<>>
        /\ writer = <<>>

\* C39 witness: Decode has failed on the second document of a yaml input
\* whose first document is a mapping.
C39_Witness ==
    /\ Fatal
    /\ YAMLRun
    /\ Len(input.items) >= 2
    /\ input.items[1].kind = "map"
    /\ input.items[2].kind = "err"

\* C39 witness for json: the payload is neither an object nor an array of
\* objects.
C39_JSONWitness ==
    /\ Fatal
    /\ JSONRun
    /\ input.kind \notin {"empty", "array", "object"}


-----------------------------------------------------------------------------
(* properties of the main that calls readJSONInput itself *)

\* Main is in a send on the full queue, which nothing receives from.
BlockedInSend == Running /\ ppc = "send" /\ Len(objs) >= ObjsCap

\* C40: with readJSONInput called by main itself for -i json and a queue of
\* ObjsCap records, main reaches WriteFooter on every input that is an array,
\* arrays of more than ObjsCap non-dropped records included.
\* Stated on the states: on an array main has called WriteFooter or can take
\* its next step; every run being finite, main then reaches WriteFooter.
C40_SyncReachesFooter ==
    (input.kind = "array") => (Calls("WriteFooter") = 1 \/ MainSyncCanStep)

\* Main reaches WriteFooter on the arrays of at most ObjsCap non-dropped
\* records and on the single objects, and is blocked for ever in its send on
\* the others.
SyncFooterIffFits ==
    /\ (input.kind \in {"array", "object"} /\
        Len(NonDropped(RecsOf("json", input.items))) <= ObjsCap)
          => <>(Calls("WriteFooter") = 1)
    /\ (input.kind = "array" /\ Len(NonDropped(RecsOf("json", input.items))) > ObjsCap)
          => <>[](BlockedInSend /\ methods = <<>>)

=============================================================================
